---------------------------- MODULE Spec2Model ----------------------------
(* Model of the Snowflake credit-usage analyzer (src/streamlit_app.py):    *)
(* one script run that loads the query-history snapshot, runs the issue   *)
(* detectors over it and derives the summary counts.                      *)
(*                                                                        *)
(* Query texts are sequences of one-character strings, so that upper(),   *)
(* substring tests, split() and the regular expressions of the detectors  *)
(* are computed character by character.                                   *)
EXTENDS Integers, Sequences, FiniteSets, TLC

(* ---------------------------------------------------------------------- *)
(* Characters and Python string operations                                *)
(* ---------------------------------------------------------------------- *)

LowerSeq == <<"a", "b", "c", "d", "e", "f", "g", "h", "i", "j", "k", "l", "m",
              "n", "o", "p", "q", "r", "s", "t", "u", "v", "w", "x", "y", "z">>

UpperSeq == <<"A", "B", "C", "D", "E", "F", "G", "H", "I", "J", "K", "L", "M",
              "N", "O", "P", "Q", "R", "S", "T", "U", "V", "W", "X", "Y", "Z">>

UpperLetters == {UpperSeq[i] : i \in 1..26}

LowerLetters == {LowerSeq[i] : i \in 1..26}

Digits == {"0", "1", "2", "3", "4", "5", "6", "7", "8", "9"}

(* \s of Python's re module, restricted to the characters of the model *)
WhiteSpace == {" ", "\n", "\t"}

(* \w of Python's re module *)
WordChars == UpperLetters \cup LowerLetters \cup Digits \cup {"_"}

Punctuation == {"*", ".", ",", "(", ")", "=", "'", ";", "-"}

(* the dot of a pattern compiled with re.DOTALL *)
AnyChar == WordChars \cup WhiteSpace \cup Punctuation

UpperChar(c) ==
    IF c \in LowerLetters
    THEN UpperSeq[CHOOSE i \in 1..26 : LowerSeq[i] = c]
    ELSE c

(* str.upper() *)
Upper(s) == [i \in 1..Len(s) |-> UpperChar(s[i])]

(* the value of a missing (None / NaN) cell *)
NULL == -1

(* str(None) *)
NoneText == <<"N", "o", "n", "e">>

(* the QUERY_TEXT cell of a record whose text is missing *)
NullText == <<"<None>">>

(* str(row['QUERY_TEXT']).upper() *)
StrUpper(t) == IF t = NullText THEN Upper(NoneText) ELSE Upper(t)

(* lit in s, as a set of the positions where lit starts *)
Occurrences(s, lit) ==
    {i \in 1..(Len(s) - Len(lit) + 1) : SubSeq(s, i, i + Len(lit) - 1) = lit}

(* lit in s *)
Contains(s, lit) == Occurrences(s, lit) # {}

Min(S) == CHOOSE x \in S : \A y \in S : x <= y

(* s.split(lit, 1)[-1]: the text after the first lit, s itself without lit *)
SplitLast1(s, lit) ==
    IF Contains(s, lit)
    THEN SubSeq(s, Min(Occurrences(s, lit)) + Len(lit), Len(s))
    ELSE s

(* s.split(lit)[0]: the text before the first lit, s itself without lit *)
SplitFirst(s, lit) ==
    IF Contains(s, lit)
    THEN SubSeq(s, 1, Min(Occurrences(s, lit)) - 1)
    ELSE s

(* s.strip().startswith(lit): leading white space does not count *)
StripStartsWith(s, lit) ==
    \E i \in 1..(Len(s) + 1) :
        /\ \A j \in 1..(i - 1) : s[j] \in WhiteSpace
        /\ i > Len(s) \/ s[i] \notin WhiteSpace
        /\ i + Len(lit) - 1 <= Len(s)
        /\ SubSeq(s, i, i + Len(lit) - 1) = lit

(* ---------------------------------------------------------------------- *)
(* Regular expressions (the subset of Python's re used by the detectors)  *)
(* A pattern is a sequence of elements; an element consumes one character *)
(* of a class ("one"), zero or one ("opt"), zero or more ("star"), one or *)
(* more ("plus"), or is the zero-width \b ("wordb") or a negative         *)
(* lookahead ("nla").  Positions are the index of the next character.     *)
(* ---------------------------------------------------------------------- *)

One(cls) == [k |-> "one", cls |-> cls, sub |-> <<>>]

Opt(cls) == [k |-> "opt", cls |-> cls, sub |-> <<>>]

Star(cls) == [k |-> "star", cls |-> cls, sub |-> <<>>]

Plus(cls) == [k |-> "plus", cls |-> cls, sub |-> <<>>]

WordB == [k |-> "wordb", cls |-> {}, sub |-> <<>>]

NegLookahead(re) == [k |-> "nla", cls |-> {}, sub |-> re]

(* a literal string as a pattern *)
Lit(s) == [i \in 1..Len(s) |-> One({s[i]})]

IsWordAt(s, p) == p >= 1 /\ p <= Len(s) /\ s[p] \in WordChars

StepOne(cls, s, P) == {p + 1 : p \in {q \in P : q <= Len(s) /\ s[q] \in cls}}

StepStar(cls, s, P) ==
    {q \in 1..(Len(s) + 1) :
        \E p \in P : p <= q /\ \A j \in p..(q - 1) : s[j] \in cls}

RECURSIVE ReEnds(_, _, _, _)
(* the positions a match of re[i..] can end at when it starts in P *)
ReEnds(re, i, s, P) ==
    IF i > Len(re) \/ P = {}
    THEN P
    ELSE LET e == re[i]
             Q == CASE e.k = "one"   -> StepOne(e.cls, s, P)
                    [] e.k = "opt"   -> P \cup StepOne(e.cls, s, P)
                    [] e.k = "star"  -> StepStar(e.cls, s, P)
                    [] e.k = "plus"  -> StepStar(e.cls, s, StepOne(e.cls, s, P))
                    [] e.k = "wordb" ->
                           {p \in P : IsWordAt(s, p - 1) # IsWordAt(s, p)}
                    [] e.k = "nla"   ->
                           {p \in P : ReEnds(e.sub, 1, s, {p}) = {}}
         IN  ReEnds(re, i + 1, s, Q)

(* re.search(re, s) is not None *)
ReSearch(re, s) == ReEnds(re, 1, s, 1..(Len(s) + 1)) # {}

(* ---------------------------------------------------------------------- *)
(* Keywords and patterns of the query-text detectors                      *)
(* ---------------------------------------------------------------------- *)

(* the literals the detectors look for *)
Keyword ==
    [SELECT |-> <<"S", "E", "L", "E", "C", "T">>,
     FROM |-> <<"F", "R", "O", "M">>,
     JOIN |-> <<"J", "O", "I", "N">>,
     SP_ON_SP |-> <<" ", "O", "N", " ">>,
     ON |-> <<"O", "N">>,
     USING |-> <<"U", "S", "I", "N", "G">>,
     WHERE |-> <<"W", "H", "E", "R", "E">>,
     CROSS_JOIN |-> <<"C", "R", "O", "S", "S", " ", "J", "O", "I", "N">>,
     OR |-> <<"O", "R">>,
     UNION_WORD |-> <<"U", "N", "I", "O", "N">>,
     ALL |-> <<"A", "L", "L">>,
     GROUP_BY |-> <<"G", "R", "O", "U", "P", " ", "B", "Y">>,
     ORDER_BY |-> <<"O", "R", "D", "E", "R", " ", "B", "Y">>,
     LIMIT |-> <<"L", "I", "M", "I", "T">>,
     YEAR |-> <<"Y", "E", "A", "R">>,
     MONTH |-> <<"M", "O", "N", "T", "H">>,
     DATE |-> <<"D", "A", "T", "E">>,
     TO_DATE |-> <<"T", "O", "_", "D", "A", "T", "E">>,
     DATE_TRUNC |-> <<"D", "A", "T", "E", "_", "T", "R", "U", "N", "C">>,
     UPPER |-> <<"U", "P", "P", "E", "R">>,
     LOWER |-> <<"L", "O", "W", "E", "R">>,
     TRIM |-> <<"T", "R", "I", "M">>,
     SUBSTR |-> <<"S", "U", "B", "S", "T", "R">>]

(* r'SELECT\s+\*\s+FROM' *)
SelectStarFromPattern ==
    Lit(Keyword.SELECT) \o <<Plus(WhiteSpace), One({"*"}), Plus(WhiteSpace)>>
                  \o Lit(Keyword.FROM)

(* r'SELECT\s+[A-Z_]+\.\*' *)
SelectQualifiedStarPattern ==
    Lit(Keyword.SELECT) \o <<Plus(WhiteSpace), Plus(UpperLetters \cup {"_"}),
                       One({"."}), One({"*"})>>

(* select_star_patterns *)
select_star_patterns == <<SelectStarFromPattern, SelectQualifiedStarPattern>>

(* r'FROM\s+\w+\s*,\s*\w+' *)
CommaJoinPattern ==
    Lit(Keyword.FROM) \o <<Plus(WhiteSpace), Plus(WordChars), Star(WhiteSpace),
                     One({","}), Star(WhiteSpace), Plus(WordChars)>>

(* r'JOIN.*ON.*\sOR\s' with re.DOTALL *)
OrInJoinPattern ==
    Lit(Keyword.JOIN) \o <<Star(AnyChar)>> \o Lit(Keyword.ON)
                \o <<Star(AnyChar), One(WhiteSpace)>> \o Lit(Keyword.OR)
                \o <<One(WhiteSpace)>>

(* r'\bUNION\b(?!\s+ALL)' *)
(* UnionPattern without the lookahead: r'\bUNION\b' *)
UnionPatternAnyUnion == <<WordB>> \o Lit(Keyword.UNION_WORD) \o <<WordB>>

UnionPattern ==
    <<WordB>> \o Lit(Keyword.UNION_WORD)
              \o <<WordB, NegLookahead(<<Plus(WhiteSpace)>> \o Lit(Keyword.ALL))>>

(* r'\bNAME\s*\(\s*\w+' ; the texts searched are upper-cased already, so *)
(* re.IGNORECASE changes nothing                                        *)
FunctionCallPattern(name) ==
    <<WordB>> \o Lit(name)
              \o <<Star(WhiteSpace), One({"("}), Star(WhiteSpace),
                   Plus(WordChars)>>

(* r'\bDATE_TRUNC\s*\(\s*[\'"]?\w+[\'"]?\s*,\s*\w+' *)
DateTruncPattern ==
    <<WordB>> \o Lit(Keyword.DATE_TRUNC)
              \o <<Star(WhiteSpace), One({"("}), Star(WhiteSpace),
                   Opt({"'", "\""}), Plus(WordChars), Opt({"'", "\""}),
                   Star(WhiteSpace), One({","}), Star(WhiteSpace),
                   Plus(WordChars)>>

(* function_patterns: (pattern, func_name) pairs, in the order of the list *)
function_patterns ==
    << <<FunctionCallPattern(Keyword.YEAR), "YEAR()">>,
       <<FunctionCallPattern(Keyword.MONTH), "MONTH()">>,
       <<FunctionCallPattern(Keyword.DATE), "DATE()">>,
       <<FunctionCallPattern(Keyword.TO_DATE), "TO_DATE()">>,
       <<DateTruncPattern, "DATE_TRUNC()">>,
       <<FunctionCallPattern(Keyword.UPPER), "UPPER()">>,
       <<FunctionCallPattern(Keyword.LOWER), "LOWER()">>,
       <<FunctionCallPattern(Keyword.TRIM), "TRIM()">>,
       <<FunctionCallPattern(Keyword.SUBSTR), "SUBSTR()">> >>

(* ---------------------------------------------------------------------- *)
(* Numbers                                                                *)
(* Byte counts exceed 32 bits (50 GiB), so a byte count is the pair       *)
(* gib * 2^30 + rem with 0 <= rem < 2^30.  Durations are milliseconds;    *)
(* the *_SEC columns hold the quotient x / 1000 as numerator and          *)
(* denominator.  A missing cell is NULL (NaN in a *_SEC column).          *)
(* ---------------------------------------------------------------------- *)

TwoTo30 == 1073741824

Bytes(g, r) == [gib |-> g, rem |-> r]

NullBytes == Bytes(NULL, 0)

(* pd.notna(x) *)
NotNa(x) == x # NULL

NotNaBytes(b) == b.gib # NULL

(* x if pd.notna(x) else 0 *)
OrZero(x) == IF NotNa(x) THEN x ELSE 0

OrZeroBytes(b) == IF NotNaBytes(b) THEN b ELSE Bytes(0, 0)

(* a > b on byte counts *)
BytesGT(a, b) == a.gib > b.gib \/ (a.gib = b.gib /\ a.rem > b.rem)

(* a cell of a *_SEC column: the quotient num / den, NaN when missing *)
NaN == [num |-> 0, den |-> 0]

(* x / 1000 *)
MsToSec(x) == IF NotNa(x) THEN [num |-> x, den |-> 1000] ELSE NaN

NotNaSec(x) == x.den # 0

(* x > n on a *_SEC cell: a comparison with NaN is False *)
SecGT(x, n) == NotNaSec(x) /\ x.num > n * x.den

(* (rows / max(bytes, 1)) > k, with true division *)
RatioGT(rows, b, k) ==
    IF b.gib > 0
    THEN FALSE   \* rows < 2^31 <= bytes
    ELSE LET m == IF b.rem > 1 THEN b.rem ELSE 1
         IN  (rows \div m) > k \/ ((rows \div m) = k /\ (rows % m) > 0)

(* ---------------------------------------------------------------------- *)
(* Data frames                                                            *)
(* A frame is its rows and the set of its column names; a row is a record *)
(* with one field per column.  Reading an absent column raises KeyError.  *)
(* ---------------------------------------------------------------------- *)

(* a missing string cell (None) *)
NullStr == "<None>"

(* the columns selected by the query of load_query_history that the       *)
(* detectors read                                                         *)
QueryColumns ==
    {"QUERY_ID", "QUERY_TEXT", "QUERY_PARAMETERIZED_HASH", "USER_NAME",
     "WAREHOUSE_NAME", "WAREHOUSE_SIZE", "START_TIME", "TOTAL_ELAPSED_TIME",
     "EXECUTION_TIME", "COMPILATION_TIME", "QUEUED_PROVISIONING_TIME",
     "QUEUED_OVERLOAD_TIME", "BYTES_SCANNED",
     "BYTES_SPILLED_TO_LOCAL_STORAGE", "BYTES_SPILLED_TO_REMOTE_STORAGE",
     "PARTITIONS_SCANNED", "PARTITIONS_TOTAL",
     "PERCENTAGE_SCANNED_FROM_CACHE", "ROWS_PRODUCED",
     "CREDITS_USED_CLOUD_SERVICES", "QUERY_RETRY_TIME", "QUERY_RETRY_CAUSE"}

(* the columns load_query_history adds *)
DerivedColumns ==
    {"TOTAL_ELAPSED_TIME_SEC", "EXECUTION_TIME_SEC", "COMPILATION_TIME_SEC"}

LoadedColumns == QueryColumns \cup DerivedColumns

Frame(rows, cols) == [rows |-> rows, cols |-> cols]

(* pd.DataFrame() *)
EmptyFrame == Frame(<<>>, {})

(* df.empty: no rows or no columns *)
IsEmpty(df) == Len(df.rows) = 0 \/ df.cols = {}

(* the outcome of a detector: it raised, or it returned an issue table *)
Raised == [raised |-> TRUE, issues |-> <<>>]

Returned(issues) == [raised |-> FALSE, issues |-> issues]

(* the outcome of one iteration of a detector's loop *)
RowRaise == [raised |-> TRUE, out |-> <<>>]

RowSkip == [raised |-> FALSE, out |-> <<>>]

RowEmit(issue) == [raised |-> FALSE, out |-> <<issue>>]

(* an iteration that reads the columns needed: KeyError if one is absent *)
Reading(cols, needed, result) == IF needed \subseteq cols THEN result ELSE RowRaise

RECURSIVE CollectFrom(_, _, _)
(* issues.append over the iterations i.. , stopping at the first raise *)
CollectFrom(outs, i, acc) ==
    IF i > Len(outs)
    THEN Returned(acc)
    ELSE IF outs[i].raised
         THEN Raised
         ELSE CollectFrom(outs, i + 1, acc \o outs[i].out)

(* pd.DataFrame(issues) after the loop over the rows *)
Collect(outs) == CollectFrom(outs, 1, <<>>)

RECURSIVE SumSeq(_)
SumSeq(xs) == IF xs = <<>> THEN 0 ELSE Head(xs) + SumSeq(Tail(xs))

(* the cells of EXECUTION_TIME_SEC of a group, NaN dropped (skipna) *)
SecCells(rows) ==
    LET cells == [i \in 1..Len(rows) |-> rows[i].EXECUTION_TIME_SEC]
    IN  SelectSeq(cells, NotNaSec)

(* the sum of *_SEC cells *)
SumSec(cells) ==
    [num |-> SumSeq([i \in 1..Len(cells) |-> cells[i].num]), den |-> 1000]

(* the cells of a column of a group, missing ones dropped (skipna) *)
NotNaCells(rows, col) ==
    LET cells == [i \in 1..Len(rows) |-> rows[i][col]]
        Keep(x) == NotNa(x)
    IN  SelectSeq(cells, Keep)

(* ---------------------------------------------------------------------- *)
(* Detectors                                                              *)
(* ---------------------------------------------------------------------- *)

(* a denominator of a quotient a detector computes, or none when the      *)
(* detector does not reach the quotient                                   *)
Denominator(by) == [skipped |-> FALSE, by |-> by]

Skipped == [skipped |-> TRUE, by |-> 0]

(* an iteration that computes a / den.by: ZeroDivisionError when it is 0  *)
Dividing(den, zero, result) ==
    IF ~den.skipped /\ den.by = zero THEN RowRaise ELSE result

(* max(x, 1) *)
Max1(x) == IF x > 1 THEN x ELSE 1

(* max(bytes_scanned, 1) *)
Max1Bytes(b) == IF BytesGT(b, Bytes(0, 1)) THEN b ELSE Bytes(0, 1)

IssueColumns == {"QUERY_ID", "USER_NAME", "WAREHOUSE_NAME", "EXECUTION_TIME_SEC"}

(* any(re.search(pattern, query_text) for pattern in select_star_patterns) *)
has_select_star(query_text) ==
    \E i \in 1..Len(select_star_patterns) :
        ReSearch(select_star_patterns[i], query_text)

SelectStarRow(row, cols) ==
    Reading(cols, {"QUERY_TEXT"},
      LET query_text == StrUpper(row.QUERY_TEXT)
      IN  IF has_select_star(query_text)
          THEN Reading(cols, {"BYTES_SCANNED"} \cup IssueColumns,
                 LET bytes_scanned == OrZeroBytes(row.BYTES_SCANNED)
                     severity == IF BytesGT(bytes_scanned, Bytes(1, 0))
                                 THEN "HIGH" ELSE "MEDIUM"
                 IN  RowEmit([QUERY_ID |-> row.QUERY_ID,
                              SEVERITY |-> severity,
                              ISSUE |-> "SELECT * Usage"]))
          ELSE RowSkip)

analyze_select_star(df) ==
    Collect([i \in 1..Len(df.rows) |-> SelectStarRow(df.rows[i], df.cols)])

has_join(query_text) == Contains(query_text, Keyword.JOIN)

has_on_or_using(query_text) ==
    Contains(query_text, Keyword.SP_ON_SP) \/ Contains(query_text, Keyword.USING)

has_comma_join(query_text) ==
    ReSearch(CommaJoinPattern, query_text) /\ ~Contains(query_text, Keyword.WHERE)

has_cross_join(query_text) == Contains(query_text, Keyword.CROSS_JOIN)

has_or_in_join(query_text) == ReSearch(OrInJoinPattern, query_text)

(* the denominator of rows_produced / max(bytes_scanned, 1): the `and`    *)
(* chain reaches the quotient only when the tests before it hold          *)
explosion_denominator(rows_produced, bytes_scanned, execution_time) ==
    IF /\ rows_produced > 10000000
       /\ BytesGT(bytes_scanned, Bytes(0, 0))
       /\ SecGT(execution_time, 60)
    THEN Denominator(Max1Bytes(bytes_scanned))
    ELSE Skipped

(* high_row_explosion without the test of the execution time *)
high_row_explosion_any_duration(rows_produced, bytes_scanned, execution_time) ==
    /\ rows_produced > 10000000
    /\ BytesGT(bytes_scanned, Bytes(0, 0))
    /\ RatioGT(rows_produced, bytes_scanned, 100)

high_row_explosion(rows_produced, bytes_scanned, execution_time) ==
    /\ rows_produced > 10000000
    /\ BytesGT(bytes_scanned, Bytes(0, 0))
    /\ SecGT(execution_time, 60)
    /\ RatioGT(rows_produced, bytes_scanned, 100)

missing_join_condition(query_text) ==
    (has_join(query_text) /\ ~has_on_or_using(query_text))
        \/ has_comma_join(query_text)

(* JoinReason testing the CROSS JOIN before the missing join condition *)
JoinReasonCrossFirst(query_text, explosion) ==
    IF has_cross_join(query_text)
    THEN "Explicit CROSS JOIN detected"
    ELSE IF missing_join_condition(query_text)
         THEN "Missing ON/USING clause in JOIN"
         ELSE IF has_or_in_join(query_text)
              THEN "OR condition in JOIN clause"
              ELSE IF explosion THEN "Row explosion" ELSE ""

(* the single reason the if / elif chain appends *)
JoinReason(query_text, explosion) ==
    IF missing_join_condition(query_text)
    THEN "Missing ON/USING clause in JOIN"
    ELSE IF has_cross_join(query_text)
         THEN "Explicit CROSS JOIN detected"
         ELSE IF has_or_in_join(query_text)
              THEN "OR condition in JOIN clause"
              ELSE IF explosion THEN "Row explosion" ELSE ""

JoinSeverity(query_text) ==
    IF missing_join_condition(query_text) \/ has_cross_join(query_text)
    THEN "CRITICAL" ELSE "HIGH"

CartesianRow(row, cols) ==
    Reading(cols, {"QUERY_TEXT", "ROWS_PRODUCED", "BYTES_SCANNED",
                   "EXECUTION_TIME_SEC"},
      LET query_text == StrUpper(row.QUERY_TEXT)
          rows_produced == OrZero(row.ROWS_PRODUCED)
          bytes_scanned == OrZeroBytes(row.BYTES_SCANNED)
          explosion == high_row_explosion(rows_produced, bytes_scanned,
                                          row.EXECUTION_TIME_SEC)
      IN  Dividing(explosion_denominator(rows_produced, bytes_scanned,
                                         row.EXECUTION_TIME_SEC),
                   Bytes(0, 0),
            IF \/ missing_join_condition(query_text)
               \/ has_cross_join(query_text)
               \/ explosion
               \/ has_or_in_join(query_text)
            THEN Reading(cols, IssueColumns,
                   RowEmit([QUERY_ID |-> row.QUERY_ID,
                            SEVERITY |-> JoinSeverity(query_text),
                            ISSUE |-> "Cartesian Join / Join Issue",
                            PROBLEM |-> JoinReason(query_text, explosion)]))
            ELSE RowSkip))

analyze_cartesian_joins(df) ==
    Collect([i \in 1..Len(df.rows) |-> CartesianRow(df.rows[i], df.cols)])

has_union(query_text) == ReSearch(UnionPattern, query_text)

UnionRow(row, cols) ==
    Reading(cols, {"QUERY_TEXT"},
      IF has_union(StrUpper(row.QUERY_TEXT))
      THEN Reading(cols, IssueColumns,
             RowEmit([QUERY_ID |-> row.QUERY_ID,
                      SEVERITY |-> "LOW",
                      ISSUE |-> "UNION Instead of UNION ALL"]))
      ELSE RowSkip)

analyze_union_vs_union_all(df) ==
    Collect([i \in 1..Len(df.rows) |-> UnionRow(df.rows[i], df.cols)])

(* where_clause that is not cut at GROUP BY *)
where_clause_to_order_by(query_text) ==
    SplitFirst(SplitFirst(SplitLast1(query_text, Keyword.WHERE),
                          Keyword.ORDER_BY),
               Keyword.LIMIT)

(* the WHERE clause analyze_function_on_filter searches *)
where_clause(query_text) ==
    SplitFirst(SplitFirst(SplitFirst(SplitLast1(query_text, Keyword.WHERE),
                                     Keyword.GROUP_BY),
                          Keyword.ORDER_BY),
               Keyword.LIMIT)

(* detected_functions: the names whose pattern matches, in list order *)
detected_functions(clause) ==
    LET Matches(pair) == ReSearch(pair[1], clause)
        hits == SelectSeq(function_patterns, Matches)
    IN  [i \in 1..Len(hits) |-> hits[i][2]]

FunctionFilterRow(row, cols) ==
    Reading(cols, {"QUERY_TEXT"},
      LET query_text == StrUpper(row.QUERY_TEXT)
      IN  IF ~Contains(query_text, Keyword.WHERE)
          THEN RowSkip
          ELSE LET detected == detected_functions(where_clause(query_text))
               IN  IF detected # <<>>
                   THEN Reading(cols, {"PARTITIONS_SCANNED", "PARTITIONS_TOTAL"}
                                          \cup IssueColumns,
                          LET partitions_total == OrZero(row.PARTITIONS_TOTAL)
                              severity == IF partitions_total > 100
                                          THEN "HIGH" ELSE "MEDIUM"
                          IN  RowEmit([QUERY_ID |-> row.QUERY_ID,
                                       SEVERITY |-> severity,
                                       ISSUE |-> "Function on Filter Column",
                                       FUNCTIONS_DETECTED |-> detected]))
                   ELSE RowSkip)

analyze_function_on_filter(df) ==
    Collect([i \in 1..Len(df.rows) |-> FunctionFilterRow(df.rows[i], df.cols)])

(* SpillingRow grading on the local spill instead of the remote one *)
SpillingRowLocalGrade(row, cols) ==
    Reading(cols, {"BYTES_SPILLED_TO_LOCAL_STORAGE",
                   "BYTES_SPILLED_TO_REMOTE_STORAGE"},
      LET local_spill == OrZeroBytes(row.BYTES_SPILLED_TO_LOCAL_STORAGE)
          remote_spill == OrZeroBytes(row.BYTES_SPILLED_TO_REMOTE_STORAGE)
      IN  IF BytesGT(local_spill, Bytes(0, 0)) \/ BytesGT(remote_spill, Bytes(0, 0))
          THEN RowEmit([QUERY_ID |-> row.QUERY_ID,
                        SEVERITY |-> IF BytesGT(local_spill, Bytes(0, 0))
                                     THEN "CRITICAL" ELSE "HIGH",
                        ISSUE |-> "Memory Spilling"])
          ELSE RowSkip)

SpillingRow(row, cols) ==
    Reading(cols, {"BYTES_SPILLED_TO_LOCAL_STORAGE",
                   "BYTES_SPILLED_TO_REMOTE_STORAGE"},
      LET local_spill == OrZeroBytes(row.BYTES_SPILLED_TO_LOCAL_STORAGE)
          remote_spill == OrZeroBytes(row.BYTES_SPILLED_TO_REMOTE_STORAGE)
      IN  IF BytesGT(local_spill, Bytes(0, 0)) \/ BytesGT(remote_spill, Bytes(0, 0))
          THEN Reading(cols, {"WAREHOUSE_SIZE"} \cup IssueColumns,
                 LET severity == IF BytesGT(remote_spill, Bytes(0, 0))
                                 THEN "CRITICAL" ELSE "HIGH"
                 IN  RowEmit([QUERY_ID |-> row.QUERY_ID,
                              SEVERITY |-> severity,
                              ISSUE |-> "Memory Spilling"]))
          ELSE RowSkip)

analyze_spilling(df) ==
    Collect([i \in 1..Len(df.rows) |-> SpillingRow(df.rows[i], df.cols)])

(* pruning_denominator dividing before the test of partitions_total *)
pruning_denominator_unguarded(partitions_total) ==
    Denominator(partitions_total)

(* the denominator of partitions_scanned / partitions_total, computed     *)
(* under `if partitions_total > 50`                                       *)
pruning_denominator(partitions_total) ==
    IF partitions_total > 50 THEN Denominator(partitions_total) ELSE Skipped

(* PruningRow grading a scan of exactly 80% as HIGH *)
PruningRowHighFrom80(row, cols) ==
    Reading(cols, {"PARTITIONS_SCANNED", "PARTITIONS_TOTAL", "BYTES_SCANNED"},
      LET partitions_scanned == OrZero(row.PARTITIONS_SCANNED)
          partitions_total == OrZero(row.PARTITIONS_TOTAL)
      IN  Dividing(pruning_denominator(partitions_total), 0,
            IF partitions_total > 50 /\ partitions_scanned * 100 > 50 * partitions_total
            THEN Reading(cols, IssueColumns,
                   LET severity == IF partitions_scanned * 100 >= 80 * partitions_total
                                   THEN "HIGH" ELSE "MEDIUM"
                   IN  RowEmit([QUERY_ID |-> row.QUERY_ID,
                                SEVERITY |-> severity,
                                ISSUE |-> "Poor Partition Pruning"]))
            ELSE RowSkip))

PruningRow(row, cols) ==
    Reading(cols, {"PARTITIONS_SCANNED", "PARTITIONS_TOTAL", "BYTES_SCANNED"},
      LET partitions_scanned == OrZero(row.PARTITIONS_SCANNED)
          partitions_total == OrZero(row.PARTITIONS_TOTAL)
      IN  Dividing(pruning_denominator(partitions_total), 0,
            IF partitions_total > 50 /\ partitions_scanned * 100 > 50 * partitions_total
            THEN Reading(cols, IssueColumns,
                   LET severity == IF partitions_scanned * 100 > 80 * partitions_total
                                   THEN "HIGH" ELSE "MEDIUM"
                   IN  RowEmit([QUERY_ID |-> row.QUERY_ID,
                                SEVERITY |-> severity,
                                ISSUE |-> "Poor Partition Pruning"]))
            ELSE RowSkip))

analyze_poor_pruning(df) ==
    Collect([i \in 1..Len(df.rows) |-> PruningRow(df.rows[i], df.cols)])

(* the warehouse names and sizes of the model, in the sort order of groupby *)
WarehouseNames == <<"WH_A", "WH_B">>

WarehouseSizes ==
    <<"2X-LARGE", "3X-LARGE", "4X-LARGE", "LARGE", "MEDIUM", "SMALL",
      "X-LARGE", "X-SMALL">>

(* ['LARGE', 'X-LARGE', '2X-LARGE', '3X-LARGE', '4X-LARGE'] *)
LargeSizes == {"LARGE", "X-LARGE", "2X-LARGE", "3X-LARGE", "4X-LARGE"}

(* every (name, size) key, sorted *)
WarehouseKeys ==
    [k \in 1..(Len(WarehouseNames) * Len(WarehouseSizes)) |->
        <<WarehouseNames[((k - 1) \div Len(WarehouseSizes)) + 1],
          WarehouseSizes[((k - 1) % Len(WarehouseSizes)) + 1]>>]

(* the rows of one group of df.groupby(['WAREHOUSE_NAME', 'WAREHOUSE_SIZE']) *)
WarehouseGroup(rows, key) ==
    LET In(r) == r.WAREHOUSE_NAME = key[1] /\ r.WAREHOUSE_SIZE = key[2]
    IN  SelectSeq(rows, In)

RECURSIVE Flatten(_)
Flatten(ss) == IF ss = <<>> THEN <<>> ELSE Head(ss) \o Flatten(Tail(ss))

(* WarehouseGroupIssues with the three tests chained by elif *)
WarehouseGroupFirstIssue(key, group) ==
    LET times == SecCells(group)
        query_count == Len(times)
        avg_below_3 == query_count > 0
                       /\ SumSec(times).num < 3 * SumSec(times).den * query_count
        queued_overload == SumSeq(NotNaCells(group, "QUEUED_OVERLOAD_TIME"))
        queued_provision == SumSeq(NotNaCells(group, "QUEUED_PROVISIONING_TIME"))
        Issue(sev, name) == [WAREHOUSE |-> key[1], SIZE |-> key[2],
                             QUERY_COUNT |-> query_count,
                             SEVERITY |-> sev, ISSUE |-> name]
    IN  IF avg_below_3 /\ key[2] \in LargeSizes
        THEN <<Issue("MEDIUM", "Oversized Warehouse")>>
        ELSE IF queued_overload > 60000
             THEN <<Issue("HIGH", "Warehouse Queuing (Overload)")>>
             ELSE IF queued_provision > 30000
                  THEN <<Issue("MEDIUM", "Slow Warehouse Provisioning")>>
                  ELSE <<>>

(* the issues of one row of the grouped frame *)
WarehouseGroupIssues(key, group) ==
    LET times == SecCells(group)
        query_count == Len(times)
        \* avg_exec < 3: the mean skips missing cells and is NaN without any
        avg_below_3 == query_count > 0
                       /\ SumSec(times).num < 3 * SumSec(times).den * query_count
        queued_overload == SumSeq(NotNaCells(group, "QUEUED_OVERLOAD_TIME"))
        queued_provision == SumSeq(NotNaCells(group, "QUEUED_PROVISIONING_TIME"))
        Issue(sev, name) == [WAREHOUSE |-> key[1], SIZE |-> key[2],
                             QUERY_COUNT |-> query_count,
                             SEVERITY |-> sev, ISSUE |-> name]
    IN  (IF avg_below_3 /\ key[2] \in LargeSizes
         THEN <<Issue("MEDIUM", "Oversized Warehouse")>> ELSE <<>>)
        \o (IF queued_overload > 60000
            THEN <<Issue("HIGH", "Warehouse Queuing (Overload)")>> ELSE <<>>)
        \o (IF queued_provision > 30000
            THEN <<Issue("MEDIUM", "Slow Warehouse Provisioning")>> ELSE <<>>)

analyze_warehouse_sizing(df) ==
    IF ~({"WAREHOUSE_NAME", "WAREHOUSE_SIZE", "EXECUTION_TIME_SEC",
          "QUEUED_OVERLOAD_TIME", "QUEUED_PROVISIONING_TIME"} \subseteq df.cols)
    THEN Raised   \* KeyError from groupby / agg
    ELSE LET Present(key) == WarehouseGroup(df.rows, key) # <<>>
             keys == SelectSeq(WarehouseKeys, Present)
         IN  Returned(Flatten([k \in 1..Len(keys) |->
                 WarehouseGroupIssues(keys[k], WarehouseGroup(df.rows, keys[k]))]))

(* the fingerprint hashes of the model, in the sort order of groupby *)
Hashes == <<"h1", "h2">>

(* the rows of one group of df.groupby('QUERY_PARAMETERIZED_HASH') *)
HashGroup(rows, h) ==
    LET In(r) == r.QUERY_PARAMETERIZED_HASH = h
    IN  SelectSeq(rows, In)

RepeatedGroupIssues(group) ==
    LET times == SecCells(group)
        exec_count == Len(times)
        total_time == SumSec(times)
    IN  IF exec_count >= 5 /\ SecGT(total_time, 60)
        THEN <<[QUERY_ID |-> group[1].QUERY_ID,
                EXECUTION_COUNT |-> exec_count,
                SEVERITY |-> IF SecGT(total_time, 300) THEN "HIGH" ELSE "MEDIUM",
                ISSUE |-> "Repeated Expensive Query"]>>
        ELSE <<>>

(* analyze_repeated_expensive_queries without the test of df.columns *)
analyze_repeated_unguarded(df) ==
    IF ~({"QUERY_PARAMETERIZED_HASH", "QUERY_ID", "QUERY_TEXT", "USER_NAME",
          "WAREHOUSE_NAME", "EXECUTION_TIME_SEC", "BYTES_SCANNED"}
             \subseteq df.cols)
    THEN Raised
    ELSE LET Present(h) == HashGroup(df.rows, h) # <<>>
             keys == SelectSeq(Hashes, Present)
         IN  Returned(Flatten([k \in 1..Len(keys) |->
                 RepeatedGroupIssues(HashGroup(df.rows, keys[k]))]))

analyze_repeated_expensive_queries(df) ==
    IF "QUERY_PARAMETERIZED_HASH" \notin df.cols
    THEN Returned(<<>>)
    ELSE IF ~({"QUERY_ID", "QUERY_TEXT", "USER_NAME", "WAREHOUSE_NAME",
               "EXECUTION_TIME_SEC", "BYTES_SCANNED"} \subseteq df.cols)
         THEN Raised   \* KeyError from agg
         ELSE LET Present(h) == HashGroup(df.rows, h) # <<>>
                  keys == SelectSeq(Hashes, Present)
              IN  Returned(Flatten([k \in 1..Len(keys) |->
                      RepeatedGroupIssues(HashGroup(df.rows, keys[k]))]))

(* the denominator of compilation_time / max(total_time, 1) *)
compilation_denominator(total_time) == Denominator(Max1(total_time))

CompilationRow(row, cols) ==
    Reading(cols, {"COMPILATION_TIME", "TOTAL_ELAPSED_TIME"},
      LET compilation_time == OrZero(row.COMPILATION_TIME)
          total_time == IF NotNa(row.TOTAL_ELAPSED_TIME)
                        THEN row.TOTAL_ELAPSED_TIME ELSE 1
          denominator == compilation_denominator(total_time)
      IN  Dividing(denominator, 0,
            IF /\ compilation_time * 100 > 25 * denominator.by
               /\ compilation_time > 3000
            THEN Reading(cols, {"QUERY_ID", "USER_NAME", "WAREHOUSE_NAME"},
                   RowEmit([QUERY_ID |-> row.QUERY_ID,
                            SEVERITY |-> "MEDIUM",
                            ISSUE |-> "Excessive Compilation Time"]))
            ELSE RowSkip))

analyze_long_compilation(df) ==
    Collect([i \in 1..Len(df.rows) |-> CompilationRow(df.rows[i], df.cols)])

CacheRow(row, cols) ==
    Reading(cols, {"PERCENTAGE_SCANNED_FROM_CACHE", "EXECUTION_TIME_SEC",
                   "BYTES_SCANNED"},
      LET cache_percentage == OrZero(row.PERCENTAGE_SCANNED_FROM_CACHE)
          bytes_scanned == OrZeroBytes(row.BYTES_SCANNED)
      IN  IF /\ cache_percentage < 10
             /\ SecGT(row.EXECUTION_TIME_SEC, 30)
             /\ BytesGT(bytes_scanned, Bytes(1, 0))
          THEN Reading(cols, {"QUERY_ID", "USER_NAME", "WAREHOUSE_NAME"},
                 RowEmit([QUERY_ID |-> row.QUERY_ID,
                          SEVERITY |-> "LOW",
                          ISSUE |-> "Low Cache Utilization"]))
          ELSE RowSkip)

analyze_cache_efficiency(df) ==
    Collect([i \in 1..Len(df.rows) |-> CacheRow(df.rows[i], df.cols)])

RetryRow(row, cols) ==
    Reading(cols, {"QUERY_RETRY_CAUSE", "QUERY_RETRY_TIME"},
      \* pd.notna(retry_cause) and retry_cause: present and not empty
      IF row.QUERY_RETRY_CAUSE # NullStr /\ row.QUERY_RETRY_CAUSE # ""
      THEN Reading(cols, {"QUERY_ID", "USER_NAME", "WAREHOUSE_NAME",
                          "WAREHOUSE_SIZE"},
             RowEmit([QUERY_ID |-> row.QUERY_ID,
                      SEVERITY |-> "HIGH",
                      ISSUE |-> "Query Retry Required"]))
      ELSE RowSkip)

analyze_query_retries(df) ==
    IF "QUERY_RETRY_CAUSE" \notin df.cols
    THEN Returned(<<>>)
    ELSE Collect([i \in 1..Len(df.rows) |-> RetryRow(df.rows[i], df.cols)])

(* FullScanRow that does not look for LIMIT *)
FullScanRowIgnoringLimit(row, cols) ==
    Reading(cols, {"QUERY_TEXT", "PARTITIONS_SCANNED", "PARTITIONS_TOTAL",
                   "BYTES_SCANNED", "EXECUTION_TIME_SEC"},
      LET query_text == StrUpper(row.QUERY_TEXT)
          partitions_scanned == OrZero(row.PARTITIONS_SCANNED)
          partitions_total == OrZero(row.PARTITIONS_TOTAL)
          bytes_scanned == OrZeroBytes(row.BYTES_SCANNED)
          has_no_where == ~Contains(query_text, Keyword.WHERE)
          is_select_query == StripStartsWith(query_text, Keyword.SELECT)
          full_scan_100_pct == /\ partitions_total > 200
                               /\ partitions_scanned = partitions_total
                               /\ has_no_where
          very_large_unfiltered == /\ BytesGT(bytes_scanned, Bytes(50, 0))
                                   /\ has_no_where
                                   /\ is_select_query
                                   /\ SecGT(row.EXECUTION_TIME_SEC, 120)
      IN  IF full_scan_100_pct \/ very_large_unfiltered
          THEN Reading(cols, {"QUERY_ID", "USER_NAME", "WAREHOUSE_NAME"},
                 RowEmit([QUERY_ID |-> row.QUERY_ID,
                          SEVERITY |-> "MEDIUM",
                          ISSUE |-> "Full Table Scan (No Filter)"]))
          ELSE RowSkip)

FullScanRow(row, cols) ==
    Reading(cols, {"QUERY_TEXT", "PARTITIONS_SCANNED", "PARTITIONS_TOTAL",
                   "BYTES_SCANNED", "EXECUTION_TIME_SEC"},
      LET query_text == StrUpper(row.QUERY_TEXT)
          partitions_scanned == OrZero(row.PARTITIONS_SCANNED)
          partitions_total == OrZero(row.PARTITIONS_TOTAL)
          bytes_scanned == OrZeroBytes(row.BYTES_SCANNED)
          has_no_where == ~Contains(query_text, Keyword.WHERE)
          has_limit == Contains(query_text, Keyword.LIMIT)
          is_select_query == StripStartsWith(query_text, Keyword.SELECT)
          full_scan_100_pct == /\ partitions_total > 200
                               /\ partitions_scanned = partitions_total
                               /\ has_no_where
                               /\ ~has_limit
          very_large_unfiltered == /\ BytesGT(bytes_scanned, Bytes(50, 0))
                                   /\ has_no_where
                                   /\ ~has_limit
                                   /\ is_select_query
                                   /\ SecGT(row.EXECUTION_TIME_SEC, 120)
      IN  IF full_scan_100_pct \/ very_large_unfiltered
          THEN Reading(cols, {"QUERY_ID", "USER_NAME", "WAREHOUSE_NAME"},
                 RowEmit([QUERY_ID |-> row.QUERY_ID,
                          SEVERITY |-> "MEDIUM",
                          ISSUE |-> "Full Table Scan (No Filter)"]))
          ELSE RowSkip)

analyze_full_table_scans(df) ==
    Collect([i \in 1..Len(df.rows) |-> FullScanRow(df.rows[i], df.cols)])

CloudRow(row, cols) ==
    Reading(cols, {"CREDITS_USED_CLOUD_SERVICES"},
      \* credits are held in thousandths: cloud_credits > 0.1
      IF OrZero(row.CREDITS_USED_CLOUD_SERVICES) > 100
      THEN Reading(cols, {"QUERY_ID", "USER_NAME", "WAREHOUSE_NAME"},
             RowEmit([QUERY_ID |-> row.QUERY_ID,
                      SEVERITY |-> "LOW",
                      ISSUE |-> "High Cloud Services Usage"]))
      ELSE RowSkip)

analyze_cloud_services(df) ==
    Collect([i \in 1..Len(df.rows) |-> CloudRow(df.rows[i], df.cols)])

(* ---------------------------------------------------------------------- *)
(* Query texts of the model                                               *)
(* ---------------------------------------------------------------------- *)

\* "select id from t where id = 1"
T_PLAIN ==
    <<"s", "e", "l", "e", "c", "t", " ", "i", "d", " ", "f", "r", "o", "m",
      " ", "t", " ", "w", "h", "e", "r", "e", " ", "i", "d", " ", "=", " ",
      "1">>

\* "SELECT * FROM orders"
T_SCENARIO_A ==
    <<"S", "E", "L", "E", "C", "T", " ", "*", " ", "F", "R", "O", "M", " ",
      "o", "r", "d", "e", "r", "s">>

\* "SELECT a.* FROM a, b"
T_SCENARIO_B ==
    <<"S", "E", "L", "E", "C", "T", " ", "a", ".", "*", " ", "F", "R", "O",
      "M", " ", "a", ",", " ", "b">>

\* "select id from a join b on a.x = b.x or a.y = b.y"
T_OR_JOIN ==
    <<"s", "e", "l", "e", "c", "t", " ", "i", "d", " ", "f", "r", "o", "m",
      " ", "a", " ", "j", "o", "i", "n", " ", "b", " ", "o", "n", " ", "a",
      ".", "x", " ", "=", " ", "b", ".", "x", " ", "o", "r", " ", "a", ".",
      "y", " ", "=", " ", "b", ".", "y">>

\* "select id from a cross join b"
T_CROSS ==
    <<"s", "e", "l", "e", "c", "t", " ", "i", "d", " ", "f", "r", "o", "m",
      " ", "a", " ", "c", "r", "o", "s", "s", " ", "j", "o", "i", "n", " ",
      "b">>

\* "select id from a union select id from b"
T_UNION ==
    <<"s", "e", "l", "e", "c", "t", " ", "i", "d", " ", "f", "r", "o", "m",
      " ", "a", " ", "u", "n", "i", "o", "n", " ", "s", "e", "l", "e", "c",
      "t", " ", "i", "d", " ", "f", "r", "o", "m", " ", "b">>

\* "select id from t where year(d) = 2024"
T_YEAR ==
    <<"s", "e", "l", "e", "c", "t", " ", "i", "d", " ", "f", "r", "o", "m",
      " ", "t", " ", "w", "h", "e", "r", "e", " ", "y", "e", "a", "r", "(",
      "d", ")", " ", "=", " ", "2", "0", "2", "4">>

\* "SELECT"
K_SELECT_UP ==
    <<"S", "E", "L", "E", "C", "T">>

\* "select"
K_SELECT_LOW ==
    <<"s", "e", "l", "e", "c", "t">>

\* ""
G_NONE ==
    <<>>

\* " "
G_SPACE ==
    <<" ">>

\* "\n"
G_NEWLINE ==
    <<"\n">>

\* "\t"
G_TAB ==
    <<"\t">>

\* "*"
P_STAR ==
    <<"*">>

\* "a.*"
P_A_STAR ==
    <<"a", ".", "*">>

\* "t1.*"
P_T1_STAR ==
    <<"t", "1", ".", "*">>

\* "my_tab.*"
P_MY_TAB_STAR ==
    <<"m", "y", "_", "t", "a", "b", ".", "*">>

\* "id"
P_ID ==
    <<"i", "d">>

\* "count(*)"
P_COUNT ==
    <<"c", "o", "u", "n", "t", "(", "*", ")">>

\* "from t"
F_T ==
    <<"f", "r", "o", "m", " ", "t">>

\* "from a"
F_A ==
    <<"f", "r", "o", "m", " ", "a">>

\* "from a, b"
F_A_B ==
    <<"f", "r", "o", "m", " ", "a", ",", " ", "b">>

\* "from a,b"
F_A_B_TIGHT ==
    <<"f", "r", "o", "m", " ", "a", ",", "b">>

\* " join b on a.x = b.x"
J_ON ==
    <<" ", "j", "o", "i", "n", " ", "b", " ", "o", "n", " ", "a", ".", "x",
      " ", "=", " ", "b", ".", "x">>

\* " join b"
J_BARE ==
    <<" ", "j", "o", "i", "n", " ", "b">>

\* " join b\non a.x = b.x"
J_NL_ON ==
    <<" ", "j", "o", "i", "n", " ", "b", "\n", "o", "n", " ", "a", ".",
      "x", " ", "=", " ", "b", ".", "x">>

\* " join b using (x)"
J_USING ==
    <<" ", "j", "o", "i", "n", " ", "b", " ", "u", "s", "i", "n", "g", " ",
      "(", "x", ")">>

\* " cross join b"
J_CROSS ==
    <<" ", "c", "r", "o", "s", "s", " ", "j", "o", "i", "n", " ", "b">>

\* " join b on a.x = b.x or a.y = b.y"
J_ON_OR ==
    <<" ", "j", "o", "i", "n", " ", "b", " ", "o", "n", " ", "a", ".", "x",
      " ", "=", " ", "b", ".", "x", " ", "o", "r", " ", "a", ".", "y", " ",
      "=", " ", "b", ".", "y">>

\* " join b on a.x = b.x join c"
J_ON_THEN_BARE ==
    <<" ", "j", "o", "i", "n", " ", "b", " ", "o", "n", " ", "a", ".", "x",
      " ", "=", " ", "b", ".", "x", " ", "j", "o", "i", "n", " ", "c">>

\* " join housing h"
J_HOUSING ==
    <<" ", "j", "o", "i", "n", " ", "h", "o", "u", "s", "i", "n", "g", " ",
      "h">>

\* " where a.x = 1"
Q_WHERE ==
    <<" ", "w", "h", "e", "r", "e", " ", "a", ".", "x", " ", "=", " ", "1">>

\* " where a.x = 1 or a.y = 2"
Q_WHERE_OR ==
    <<" ", "w", "h", "e", "r", "e", " ", "a", ".", "x", " ", "=", " ", "1",
      " ", "o", "r", " ", "a", ".", "y", " ", "=", " ", "2">>

\* "select id "
S_ID ==
    <<"s", "e", "l", "e", "c", "t", " ", "i", "d", " ">>

\* "select year(d) "
S_YEAR ==
    <<"s", "e", "l", "e", "c", "t", " ", "y", "e", "a", "r", "(", "d", ")",
      " ">>

\* " where d = 1"
C_PLAIN ==
    <<" ", "w", "h", "e", "r", "e", " ", "d", " ", "=", " ", "1">>

\* " where year(d) = 2024"
C_YEAR ==
    <<" ", "w", "h", "e", "r", "e", " ", "y", "e", "a", "r", "(", "d", ")",
      " ", "=", " ", "2", "0", "2", "4">>

\* " where month (d) = 1"
C_MONTH ==
    <<" ", "w", "h", "e", "r", "e", " ", "m", "o", "n", "t", "h", " ", "(",
      "d", ")", " ", "=", " ", "1">>

\* " where date( d) = 1"
C_DATE ==
    <<" ", "w", "h", "e", "r", "e", " ", "d", "a", "t", "e", "(", " ", "d",
      ")", " ", "=", " ", "1">>

\* " where to_date(d) = 1"
C_TO_DATE ==
    <<" ", "w", "h", "e", "r", "e", " ", "t", "o", "_", "d", "a", "t", "e",
      "(", "d", ")", " ", "=", " ", "1">>

\* " where date_trunc('day', d) = 1"
C_TRUNC_2 ==
    <<" ", "w", "h", "e", "r", "e", " ", "d", "a", "t", "e", "_", "t", "r",
      "u", "n", "c", "(", "'", "d", "a", "y", "'", ",", " ", "d", ")", " ",
      "=", " ", "1">>

\* " where date_trunc(d) = 1"
C_TRUNC_1 ==
    <<" ", "w", "h", "e", "r", "e", " ", "d", "a", "t", "e", "_", "t", "r",
      "u", "n", "c", "(", "d", ")", " ", "=", " ", "1">>

\* " where upper(n) = 'x'"
C_UPPER ==
    <<" ", "w", "h", "e", "r", "e", " ", "u", "p", "p", "e", "r", "(", "n",
      ")", " ", "=", " ", "'", "x", "'">>

\* " where x = 1 and lower(n) = 'x'"
C_LOWER ==
    <<" ", "w", "h", "e", "r", "e", " ", "x", " ", "=", " ", "1", " ", "a",
      "n", "d", " ", "l", "o", "w", "e", "r", "(", "n", ")", " ", "=", " ",
      "'", "x", "'">>

\* " where trim(n) = 'x'"
C_TRIM ==
    <<" ", "w", "h", "e", "r", "e", " ", "t", "r", "i", "m", "(", "n", ")",
      " ", "=", " ", "'", "x", "'">>

\* " where substr(n, 1) = 'x'"
C_SUBSTR ==
    <<" ", "w", "h", "e", "r", "e", " ", "s", "u", "b", "s", "t", "r", "(",
      "n", ",", " ", "1", ")", " ", "=", " ", "'", "x", "'">>

\* " where myyear(d) = 1"
C_MYYEAR ==
    <<" ", "w", "h", "e", "r", "e", " ", "m", "y", "y", "e", "a", "r", "(",
      "d", ")", " ", "=", " ", "1">>

\* " where id in (select id from u where d = 1 limit 5) and year(d) = 1"
C_NESTED ==
    <<" ", "w", "h", "e", "r", "e", " ", "i", "d", " ", "i", "n", " ", "(",
      "s", "e", "l", "e", "c", "t", " ", "i", "d", " ", "f", "r", "o", "m",
      " ", "u", " ", "w", "h", "e", "r", "e", " ", "d", " ", "=", " ", "1",
      " ", "l", "i", "m", "i", "t", " ", "5", ")", " ", "a", "n", "d", " ",
      "y", "e", "a", "r", "(", "d", ")", " ", "=", " ", "1">>

\* " group by year(d)"
E_GROUP ==
    <<" ", "g", "r", "o", "u", "p", " ", "b", "y", " ", "y", "e", "a", "r",
      "(", "d", ")">>

\* " order by upper(n)"
E_ORDER ==
    <<" ", "o", "r", "d", "e", "r", " ", "b", "y", " ", "u", "p", "p", "e",
      "r", "(", "n", ")">>

\* " limit 5"
E_LIMIT ==
    <<" ", "l", "i", "m", "i", "t", " ", "5">>

\* " order by id limit trim(n)"
E_ORDER_LIMIT ==
    <<" ", "o", "r", "d", "e", "r", " ", "b", "y", " ", "i", "d", " ", "l",
      "i", "m", "i", "t", " ", "t", "r", "i", "m", "(", "n", ")">>

(* ---------------------------------------------------------------------- *)
(* The rows the history query can return                                  *)
(* ---------------------------------------------------------------------- *)

(* the most rows of a snapshot *)
MaxRecords == 2

(* a record no detector reports: a short filtered query on a small warehouse *)
BaseRow ==
    [QUERY_ID |-> 0,
     QUERY_TEXT |-> T_PLAIN,
     QUERY_PARAMETERIZED_HASH |-> "h1",
     USER_NAME |-> "u1",
     WAREHOUSE_NAME |-> "WH_A",
     WAREHOUSE_SIZE |-> "SMALL",
     START_TIME |-> 4000,
     TOTAL_ELAPSED_TIME |-> 5000,
     EXECUTION_TIME |-> 4000,
     COMPILATION_TIME |-> 100,
     QUEUED_PROVISIONING_TIME |-> 0,
     QUEUED_OVERLOAD_TIME |-> 0,
     BYTES_SCANNED |-> Bytes(0, 1000),
     BYTES_SPILLED_TO_LOCAL_STORAGE |-> Bytes(0, 0),
     BYTES_SPILLED_TO_REMOTE_STORAGE |-> Bytes(0, 0),
     PARTITIONS_SCANNED |-> 1,
     PARTITIONS_TOTAL |-> 10,
     PERCENTAGE_SCANNED_FROM_CACHE |-> 50,
     ROWS_PRODUCED |-> 10,
     CREDITS_USED_CLOUD_SERVICES |-> 0,
     QUERY_RETRY_TIME |-> NULL,
     QUERY_RETRY_CAUSE |-> NullStr]

(* records of whole runs: each makes some detectors report *)
RunRows ==
    {BaseRow,
     [BaseRow EXCEPT !.QUERY_TEXT = T_SCENARIO_A, !.BYTES_SCANNED = Bytes(2, 0)],
     [BaseRow EXCEPT !.QUERY_TEXT = T_SCENARIO_B],
     [BaseRow EXCEPT !.QUERY_TEXT = T_OR_JOIN],
     [BaseRow EXCEPT !.BYTES_SPILLED_TO_REMOTE_STORAGE = Bytes(5, 0)],
     [BaseRow EXCEPT !.BYTES_SPILLED_TO_LOCAL_STORAGE = Bytes(0, 4096)],
     [BaseRow EXCEPT !.COMPILATION_TIME = 4000],
     [BaseRow EXCEPT !.QUERY_RETRY_CAUSE = "OOM", !.QUERY_RETRY_TIME = 500],
     [BaseRow EXCEPT !.CREDITS_USED_CLOUD_SERVICES = 500],
     [BaseRow EXCEPT !.EXECUTION_TIME = 40000, !.TOTAL_ELAPSED_TIME = 41000,
                     !.BYTES_SCANNED = Bytes(2, 0),
                     !.PERCENTAGE_SCANNED_FROM_CACHE = 0]}

(* texts for the wildcard-projection detector *)
SelectStarTexts ==
    {k \o g1 \o p \o g2 \o f :
        k \in {K_SELECT_UP, K_SELECT_LOW},
        g1 \in {G_SPACE, G_NEWLINE, G_NONE},
        p \in {P_STAR, P_A_STAR, P_T1_STAR, P_MY_TAB_STAR, P_ID, P_COUNT},
        g2 \in {G_SPACE, G_TAB},
        f \in {F_T, F_A_B}}

ScannedValues ==
    {NullBytes, Bytes(0, 0), Bytes(0, TwoTo30 - 1), Bytes(1, 0), Bytes(1, 1),
     Bytes(2, 0)}

SelectStarRows ==
    {[BaseRow EXCEPT !.QUERY_TEXT = t, !.BYTES_SCANNED = b] :
        t \in SelectStarTexts, b \in ScannedValues}

(* texts for the join detector *)
JoinTexts ==
    {S_ID \o f \o j \o q :
        f \in {F_A, F_A_B, F_A_B_TIGHT},
        j \in {G_NONE, J_ON, J_BARE, J_NL_ON, J_USING, J_CROSS, J_ON_OR,
               J_ON_THEN_BARE, J_HOUSING},
        q \in {G_NONE, Q_WHERE, Q_WHERE_OR}}

JoinRows == {[BaseRow EXCEPT !.QUERY_TEXT = t] : t \in JoinTexts}

SpillValues == {NullBytes, Bytes(0, 0), Bytes(0, 1), Bytes(5, 0)}

SpillRows ==
    {[BaseRow EXCEPT !.BYTES_SPILLED_TO_LOCAL_STORAGE = l,
                     !.BYTES_SPILLED_TO_REMOTE_STORAGE = r] :
        l \in SpillValues, r \in SpillValues}

(* texts for the function-on-filter detector *)
FilterTexts ==
    {h \o F_T \o c \o e :
        h \in {S_ID, S_YEAR},
        c \in {G_NONE, C_PLAIN, C_YEAR, C_MONTH, C_DATE, C_TO_DATE, C_TRUNC_2,
               C_TRUNC_1, C_UPPER, C_LOWER, C_TRIM, C_SUBSTR, C_MYYEAR,
               C_NESTED},
        e \in {G_NONE, E_GROUP, E_ORDER, E_LIMIT, E_ORDER_LIMIT}}

FilterRows ==
    {[BaseRow EXCEPT !.QUERY_TEXT = t, !.PARTITIONS_TOTAL = n] :
        t \in FilterTexts, n \in {NULL, 100, 101}}

\* "create table x as "
X_CREATE ==
    <<"c", "r", "e", "a", "t", "e", " ", "t", "a", "b", "l", "e", " ", "x", " ",
      "a", "s", " ">>

(* records for the full-table-scan detector *)
FullScanTexts ==
    {S_ID \o F_T, G_NEWLINE \o G_SPACE \o S_ID \o F_T, X_CREATE \o S_ID \o F_T,
     S_ID \o F_T \o C_PLAIN, S_ID \o F_T \o E_LIMIT}

FullScanRows ==
    {[BaseRow EXCEPT !.QUERY_TEXT = t,
                     !.PARTITIONS_SCANNED = p[1], !.PARTITIONS_TOTAL = p[2],
                     !.BYTES_SCANNED = b,
                     !.EXECUTION_TIME = e, !.TOTAL_ELAPSED_TIME = 130000] :
        t \in FullScanTexts,
        p \in {<<NULL, NULL>>, <<200, 200>>, <<201, 201>>, <<200, 201>>,
               <<NULL, 201>>},
        b \in {NullBytes, Bytes(50, 0), Bytes(50, 1)},
        e \in {NULL, 120000, 120001}}

(* records for the poor-pruning detector: (scanned, total) partitions *)
PruningRows ==
    {[BaseRow EXCEPT !.PARTITIONS_SCANNED = p[1], !.PARTITIONS_TOTAL = p[2]] :
        p \in {<<NULL, NULL>>, <<NULL, 100>>, <<30, NULL>>, <<50, 50>>,
               <<26, 51>>, <<26, 52>>, <<27, 52>>, <<50, 100>>, <<51, 100>>,
               <<80, 100>>, <<81, 100>>, <<100, 100>>}}

SeqsUpTo(S, n) == UNION {[1..k -> S] : k \in 0..n}

(* QUERY_ID is unique per execution: the position in the result set *)
WithIds(rows) == [i \in 1..Len(rows) |-> [rows[i] EXCEPT !.QUERY_ID = i]]

\* " union "
U_BARE == <<" ", "u", "n", "i", "o", "n", " ">>

\* " union all "
U_ALL == <<" ", "u", "n", "i", "o", "n", " ", "a", "l", "l", " ">>

\* " union \n  all "
U_ALL_WIDE ==
    <<" ", "u", "n", "i", "o", "n", " ", "\n", " ", " ", "a", "l", "l", " ">>

\* " UNION ALL "
U_ALL_UP == <<" ", "U", "N", "I", "O", "N", " ", "A", "L", "L", " ">>

\* " union distinct "
U_DISTINCT ==
    <<" ", "u", "n", "i", "o", "n", " ", "d", "i", "s", "t", "i", "n", "c", "t",
      " ">>

\* " union("
U_TIGHT == <<" ", "u", "n", "i", "o", "n", "(">>

\* "from reunion_all"
F_REUNION ==
    <<"f", "r", "o", "m", " ", "r", "e", "u", "n", "i", "o", "n", "_", "a", "l",
      "l">>

(* records for the UNION detector: one or two set operators *)
UnionRows ==
    {[BaseRow EXCEPT !.QUERY_TEXT = S_ID \o F_A \o u \o S_ID \o F_T \o v] :
        u \in {U_BARE, U_ALL, U_ALL_WIDE, U_ALL_UP, U_DISTINCT, U_TIGHT},
        v \in {G_NONE, U_BARE \o S_ID \o F_T, U_ALL \o S_ID \o F_T}}
    \cup {[BaseRow EXCEPT !.QUERY_TEXT = S_ID \o F_REUNION]}

(* records for the row-explosion condition of the join detector *)
ExplosionRows ==
    {[BaseRow EXCEPT !.QUERY_TEXT = t, !.ROWS_PRODUCED = n, !.BYTES_SCANNED = b,
                     !.EXECUTION_TIME = e, !.TOTAL_ELAPSED_TIME = 70000] :
        t \in {T_PLAIN, T_CROSS},
        n \in {NULL, 10000000, 10000001, 20000000},
        b \in {NullBytes, Bytes(0, 0), Bytes(0, 1), Bytes(0, 100000),
               Bytes(0, 100001), Bytes(0, 200000), Bytes(1, 0)},
        e \in {NULL, 60000, 60001}}

(* records for the detectors that group the snapshot: several executions  *)
(* of one statement on one warehouse, and one more record                 *)
MaxGroup == 5

GroupHeads ==
    {[BaseRow EXCEPT !.EXECUTION_TIME = e, !.TOTAL_ELAPSED_TIME = e + 1000] :
        e \in {12000, 12001, 60000, 60001}}
    \cup {[BaseRow EXCEPT !.WAREHOUSE_SIZE = z, !.EXECUTION_TIME = e] :
              z \in {"LARGE", "MEDIUM", "4X-LARGE"}, e \in {2999, 3000, 5000}}
    \cup {[BaseRow EXCEPT !.WAREHOUSE_SIZE = "LARGE", !.EXECUTION_TIME = e,
                          !.QUEUED_OVERLOAD_TIME = q] :
              e \in {2000, 4000}, q \in {12000, 12001, 60001}}

GroupTails ==
    {[BaseRow EXCEPT !.EXECUTION_TIME = NULL],
     [BaseRow EXCEPT !.WAREHOUSE_SIZE = "LARGE", !.EXECUTION_TIME = NULL],
     [BaseRow EXCEPT !.WAREHOUSE_SIZE = "LARGE", !.EXECUTION_TIME = 2000,
                     !.QUEUED_OVERLOAD_TIME = NULL],
     [BaseRow EXCEPT !.WAREHOUSE_SIZE = "LARGE", !.WAREHOUSE_NAME = "WH_B",
                     !.QUERY_PARAMETERIZED_HASH = "h2",
                     !.QUEUED_OVERLOAD_TIME = 60000],
     [BaseRow EXCEPT !.WAREHOUSE_SIZE = NullStr,
                     !.QUERY_PARAMETERIZED_HASH = NullStr,
                     !.EXECUTION_TIME = 400000,
                     !.TOTAL_ELAPSED_TIME = 401000,
                     !.QUEUED_OVERLOAD_TIME = 70000]}

GroupHistories ==
    {WithIds([i \in 1..n |-> r] \o tail) :
        r \in GroupHeads, n \in 0..MaxGroup,
        tail \in {<<>>} \cup {<<v>> : v \in GroupTails}}

(* records for the join detector: every combination of its four          *)
(* conditions                                                             *)
JoinPriorityTexts ==
    {S_ID \o f \o j :
        f \in {F_A, F_A_B},
        j \in {J_ON, J_ON_OR, J_CROSS, J_CROSS \o J_ON, J_CROSS \o J_ON_OR}}

JoinPriorityRows ==
    {[BaseRow EXCEPT !.QUERY_TEXT = t, !.ROWS_PRODUCED = n,
                     !.EXECUTION_TIME = 61000, !.TOTAL_ELAPSED_TIME = 62000] :
        t \in JoinPriorityTexts, n \in {10, 20000000}}

Histories ==
    {WithIds(rows) : rows \in SeqsUpTo(RunRows, MaxRecords)}
        \cup GroupHistories
        \cup {WithIds(<<r>>) :
                 r \in SelectStarRows \cup JoinRows \cup SpillRows \cup FilterRows
                          \cup FullScanRows \cup PruningRows
                          \cup UnionRows \cup ExplosionRows
                          \cup JoinPriorityRows}

(* ---------------------------------------------------------------------- *)
(* The script run                                                         *)
(* ---------------------------------------------------------------------- *)

VARIABLES
    pc,                \* the statement the script executes next
    history,           \* the rows the history query returns when it succeeds
    df,                \* the snapshot: load_query_history()'s result
    tables,            \* the issue tables, by the name of their variable
    calls,             \* how often each detector function was invoked
    shown,             \* what the page shows: (label, value) pairs
    all_issues_count,  \* NULL until the summary assigns it
    critical,          \* NULL until the summary assigns it
    anomaly            \* the issue tables of the anomaly detector

vars ==
    <<pc, history, df, tables, calls, shown, all_issues_count, critical, anomaly>>

(* the detector functions the script defines *)
DetectorNames ==
    {"analyze_select_star", "analyze_cartesian_joins",
     "analyze_union_vs_union_all", "analyze_function_on_filter",
     "analyze_spilling", "analyze_poor_pruning", "analyze_warehouse_sizing",
     "analyze_repeated_expensive_queries", "analyze_long_compilation",
     "analyze_cache_efficiency", "analyze_query_retries",
     "analyze_full_table_scans", "analyze_cloud_services"}

(* the variables the script assigns issue tables to *)
TableNames ==
    {"select_star_issues", "cartesian_issues", "union_issues",
     "function_filter_issues", "spilling_issues", "pruning_issues",
     "warehouse_issues", "compilation_issues", "cache_issues",
     "repeated_issues", "retry_issues", "full_scan_issues"}

StartOfRun ==
    /\ tables = [t \in TableNames |-> <<>>]
    /\ calls = [d \in DetectorNames |-> 0]
    /\ shown = {}
    /\ all_issues_count = NULL
    /\ critical = NULL
    /\ anomaly = [redundant |-> <<>>, off_hours |-> <<>>, spikes |-> <<>>]

Init ==
    /\ pc = "load"
    /\ history \in Histories
    /\ df = EmptyFrame
    /\ StartOfRun

(* the rows of the result with the three *_SEC columns added *)
LoadedRows(rows) ==
    [i \in 1..Len(rows) |->
        rows[i] @@ [TOTAL_ELAPSED_TIME_SEC |-> MsToSec(rows[i].TOTAL_ELAPSED_TIME),
                    EXECUTION_TIME_SEC |-> MsToSec(rows[i].EXECUTION_TIME),
                    COMPILATION_TIME_SEC |-> MsToSec(rows[i].COMPILATION_TIME)]]

(* df = load_query_history(): the query's result, or pd.DataFrame() when *)
(* the query raises                                                     *)
load_query_history ==
    /\ pc = "load"
    /\ \/ /\ df' = Frame(LoadedRows(history), LoadedColumns)
          /\ UNCHANGED shown
       \/ /\ df' = EmptyFrame
          /\ shown' = shown \cup {<<"Error loading query history", 0>>}
    /\ pc' = "guard"
    /\ UNCHANGED <<history, anomaly, tables, calls, all_issues_count, critical>>

(* if not df.empty: ... else: st.warning("No query history data ...") *)
NoData ==
    /\ pc = "guard"
    /\ IsEmpty(df)
    /\ shown' = shown \cup {<<"No query history data available", 0>>}
    /\ pc' = "done"
    /\ UNCHANGED <<history, anomaly, df, tables, calls, all_issues_count, critical>>

(* the five metrics above the tabs *)
Header ==
    /\ pc = "guard"
    /\ ~IsEmpty(df)
    /\ shown' = shown \cup {<<"Total Queries (24h)", Len(df.rows)>>}
    /\ pc' = "tab1"
    /\ UNCHANGED <<history, anomaly, df, tables, calls, all_issues_count, critical>>

(* the overview charts: nothing the detectors or the summary read *)
Tab1 ==
    /\ pc = "tab1"
    /\ pc' = "select_star_issues"
    /\ UNCHANGED <<history, anomaly, df, tables, calls, shown, all_issues_count, critical>>

(* table = fn(df): an exception ends the script run *)
Assign(table, fn, result, next) ==
    /\ pc = table
    /\ calls' = [calls EXCEPT ![fn] = @ + 1]
    /\ IF result.raised
       THEN pc' = "error" /\ UNCHANGED tables
       ELSE pc' = next /\ tables' = [tables EXCEPT ![table] = result.issues]
    /\ UNCHANGED <<history, anomaly, df, shown, all_issues_count, critical>>

SelectStar ==
    Assign("select_star_issues", "analyze_select_star",
           analyze_select_star(df), "cartesian_issues")

Cartesian ==
    Assign("cartesian_issues", "analyze_cartesian_joins",
           analyze_cartesian_joins(df), "union_issues")

Union ==
    Assign("union_issues", "analyze_union_vs_union_all",
           analyze_union_vs_union_all(df), "function_filter_issues")

FunctionFilter ==
    Assign("function_filter_issues", "analyze_function_on_filter",
           analyze_function_on_filter(df), "tab2_metrics")

(* the four st.metric calls of tab2 and the issue lists under them *)
Tab2Metrics ==
    /\ pc = "tab2_metrics"
    /\ shown' = shown \cup
          {<<"SELECT * Issues", Len(tables.select_star_issues)>>,
           <<"Join Issues", Len(tables.cartesian_issues)>>,
           <<"UNION Issues", Len(tables.union_issues)>>,
           <<"Function Filter Issues", Len(tables.function_filter_issues)>>}
    /\ pc' = "spilling_issues"
    /\ UNCHANGED <<history, anomaly, df, tables, calls, all_issues_count, critical>>

Spilling ==
    Assign("spilling_issues", "analyze_spilling",
           analyze_spilling(df), "pruning_issues")

Pruning ==
    Assign("pruning_issues", "analyze_poor_pruning",
           analyze_poor_pruning(df), "warehouse_issues")

Warehouse ==
    Assign("warehouse_issues", "analyze_warehouse_sizing",
           analyze_warehouse_sizing(df), "compilation_issues")

Compilation ==
    Assign("compilation_issues", "analyze_long_compilation",
           analyze_long_compilation(df), "cache_issues")

Cache ==
    Assign("cache_issues", "analyze_cache_efficiency",
           analyze_cache_efficiency(df), "repeated_issues")

Repeated ==
    Assign("repeated_issues", "analyze_repeated_expensive_queries",
           analyze_repeated_expensive_queries(df), "retry_issues")

Retry ==
    Assign("retry_issues", "analyze_query_retries",
           analyze_query_retries(df), "full_scan_issues")

FullScan ==
    Assign("full_scan_issues", "analyze_full_table_scans",
           analyze_full_table_scans(df), "tab3_metrics")

(* the four st.metric calls of tab3 and the issue lists under them *)
Tab3Metrics ==
    /\ pc = "tab3_metrics"
    /\ shown' = shown \cup
          {<<"Memory Spilling", Len(tables.spilling_issues)>>,
           <<"Poor Pruning", Len(tables.pruning_issues)>>,
           <<"Warehouse Issues", Len(tables.warehouse_issues)>>,
           <<"Repeated Expensive", Len(tables.repeated_issues)>>}
    /\ pc' = "tab4"
    /\ UNCHANGED <<history, anomaly, df, tables, calls, all_issues_count, critical>>

(* the top offenders: built from a copy of the rows *)
Tab4 ==
    /\ pc = "tab4"
    /\ pc' = "tab5"
    /\ UNCHANGED <<history, anomaly, df, tables, calls, shown, all_issues_count, critical>>

(* pd.to_datetime(t).dt.floor('H') on a time in seconds *)
FloorHour(t) == (t \div 3600) * 3600

(* df['HOUR'] = pd.to_datetime(df['START_TIME']).dt.floor('H') *)
Tab5 ==
    /\ pc = "tab5"
    /\ df' = Frame([i \in 1..Len(df.rows) |->
                       df.rows[i] @@ [HOUR |-> FloorHour(df.rows[i].START_TIME)]],
                   df.cols \cup {"HOUR"})
    /\ pc' = "summary"
    /\ UNCHANGED <<history, anomaly, tables, calls, shown, all_issues_count, critical>>

(* AllIssuesCount leaving out the full-table-scan issues *)
AllIssuesCountWithoutFullScans(t) ==
    Len(t.select_star_issues) + Len(t.cartesian_issues) + Len(t.union_issues)
        + Len(t.function_filter_issues) + Len(t.spilling_issues)
        + Len(t.pruning_issues) + Len(t.warehouse_issues)
        + Len(t.repeated_issues)

(* the sum the executive summary calls all_issues_count *)
AllIssuesCount(t) ==
    Len(t.select_star_issues) + Len(t.cartesian_issues) + Len(t.union_issues)
        + Len(t.function_filter_issues) + Len(t.spilling_issues)
        + Len(t.pruning_issues) + Len(t.warehouse_issues)
        + Len(t.repeated_issues) + Len(t.full_scan_issues)

(* table[table['SEVERITY'] == 'CRITICAL'] *)
CriticalRows(table) ==
    LET IsCritical(issue) == issue.SEVERITY = "CRITICAL"
    IN  SelectSeq(table, IsCritical)

(* CriticalCount adding the retried queries, which the total leaves out *)
CriticalCountWithRetries(t) ==
    IF t.spilling_issues # <<>>
    THEN Len(t.cartesian_issues) + Len(CriticalRows(t.spilling_issues))
             + Len(t.retry_issues)
    ELSE 0

(* critical = len(cartesian_issues) + len(critical spills)                *)
(*            if not spilling_issues.empty else 0                         *)
CriticalCount(t) ==
    IF t.spilling_issues # <<>>
    THEN Len(t.cartesian_issues) + Len(CriticalRows(t.spilling_issues))
    ELSE 0

(* the executive summary *)
Summary ==
    /\ pc = "summary"
    /\ all_issues_count' = AllIssuesCount(tables)
    /\ IF all_issues_count' > 0
       THEN /\ critical' = CriticalCount(tables)
            /\ shown' = shown \cup {<<"Total Issues Found", all_issues_count'>>,
                                    <<"Critical Issues", critical'>>}
       ELSE /\ UNCHANGED critical
            /\ shown' = shown \cup {<<"No major issues detected", 0>>}
    /\ pc' = "done"
    /\ UNCHANGED <<history, anomaly, df, tables, calls>>

(* the statements after the snapshot is loaded *)
NextRun ==
    \/ NoData \/ Header \/ Tab1
    \/ SelectStar \/ Cartesian \/ Union \/ FunctionFilter \/ Tab2Metrics
    \/ Spilling \/ Pruning \/ Warehouse \/ Compilation \/ Cache \/ Repeated
    \/ Retry \/ FullScan \/ Tab3Metrics
    \/ Tab4 \/ Tab5 \/ Summary

Next == load_query_history \/ NextRun

Spec == Init /\ [][Next]_vars

(* ---------------------------------------------------------------------- *)
(* The statements after the load, on a snapshot given as a frame: the     *)
(* detectors test df.columns (L505, L635), so the frames include those    *)
(* without the QUERY_PARAMETERIZED_HASH column.                           *)
(* ---------------------------------------------------------------------- *)

MaxFrameRows == 5

(* an expensive statement and one of another fingerprint that spills *)
FrameRows ==
    {[BaseRow EXCEPT !.QUERY_TEXT = T_SCENARIO_B, !.EXECUTION_TIME = 13000,
                     !.TOTAL_ELAPSED_TIME = 14000],
     [BaseRow EXCEPT !.QUERY_PARAMETERIZED_HASH = "h2",
                     !.BYTES_SPILLED_TO_REMOTE_STORAGE = Bytes(5, 0)]}

(* records whose denominators are zero or missing; the detectors guard    *)
(* against them (L158, L389, L565, L567)                                  *)
DivisionRows ==
    {[BaseRow EXCEPT !.ROWS_PRODUCED = 20000000, !.EXECUTION_TIME = 61000,
                     !.BYTES_SCANNED = b,
                     !.PARTITIONS_SCANNED = p[1], !.PARTITIONS_TOTAL = p[2],
                     !.COMPILATION_TIME = c, !.TOTAL_ELAPSED_TIME = t] :
        b \in {NullBytes, Bytes(0, 0), Bytes(0, 1)},
        p \in {<<NULL, NULL>>, <<0, 0>>, <<51, 0>>, <<50, 50>>, <<51, 51>>},
        c \in {NULL, 0, 4000},
        t \in {NULL, 0, 1, 2}}

InitFrame ==
    /\ pc = "guard"
    /\ history \in {WithIds(rows) : rows \in SeqsUpTo(FrameRows, MaxFrameRows)}
                       \cup {WithIds(<<r>>) : r \in DivisionRows}
    /\ df \in {Frame(LoadedRows(history), cols) :
                  cols \in {LoadedColumns,
                            LoadedColumns \ {"QUERY_PARAMETERIZED_HASH"}}}
    /\ StartOfRun

SpecFrame == InitFrame /\ [][NextRun]_vars

(* ---------------------------------------------------------------------- *)
(* The anomaly detector (spec.md 4.4): its code is in none of the two      *)
(* files of src/, so it is modelled from its description.  It groups the   *)
(* snapshot by fingerprint hash.  Durations are milliseconds and start     *)
(* times seconds, as in the rest of the model; the median is kept doubled  *)
(* and the z-score test is squared, so that all arithmetic is on integers. *)
(* ---------------------------------------------------------------------- *)

RECURSIVE InsertSorted(_, _)
(* x put into the ascending sequence xs *)
InsertSorted(x, xs) ==
    IF xs = <<>> \/ x <= Head(xs)
    THEN <<x>> \o xs
    ELSE <<Head(xs)>> \o InsertSorted(x, Tail(xs))

RECURSIVE Sorted(_)
(* the numbers of xs in ascending order *)
Sorted(xs) == IF xs = <<>> THEN <<>> ELSE InsertSorted(Head(xs), Sorted(Tail(xs)))

(* short_gaps on the executions in the order of the snapshot *)
short_gaps_unsorted(group) ==
    LET starts == [i \in 1..Len(group) |-> group[i].START_TIME]
    IN  Cardinality({k \in 1..(Len(starts) - 1) : starts[k + 1] - starts[k] < 900})

(* the consecutive start-time gaps of a group that are < 900 s *)
short_gaps(group) ==
    LET starts == Sorted([i \in 1..Len(group) |-> group[i].START_TIME])
    IN  Cardinality({k \in 1..(Len(starts) - 1) : starts[k + 1] - starts[k] < 900})

(* redundant executions: one issue per group of size >= 3 with >= 2 short *)
(* gaps, HIGH from 5 short gaps on                                        *)
redundant_executions(d) ==
    LET Fires(h) == /\ Len(HashGroup(d.rows, h)) >= 3
                    /\ short_gaps(HashGroup(d.rows, h)) >= 2
        keys == SelectSeq(Hashes, Fires)
    IN  [k \in 1..Len(keys) |->
            LET n == short_gaps(HashGroup(d.rows, keys[k]))
            IN  [QUERY_PARAMETERIZED_HASH |-> keys[k],
                 SHORT_GAPS |-> n,
                 SEVERITY |-> IF n >= 5 THEN "HIGH" ELSE "MEDIUM",
                 ISSUE |-> "Redundant Execution"]]

(* twice the median of a non-empty sequence of numbers *)
median_doubled(xs) ==
    LET s == Sorted(xs)
        n == Len(s)
    IN  IF n % 2 = 1 THEN 2 * s[(n + 1) \div 2] ELSE s[n \div 2] + s[(n \div 2) + 1]

(* n * (n - 1) times the variance of xs (the sample standard deviation,   *)
(* squared): n * sum(x^2) - sum(x)^2                                      *)
scaled_variance(xs) ==
    Len(xs) * SumSeq([i \in 1..Len(xs) |-> xs[i] * xs[i]]) - SumSeq(xs) * SumSeq(xs)

(* the records of a group whose execution time is a spike:                *)
(* z = (x - median) / stddev > 3 and x > 3 * median, skipped if stddev = 0 *)
group_spikes(group) ==
    LET xs == [i \in 1..Len(group) |-> OrZero(group[i].EXECUTION_TIME)]
        n == Len(xs)
        m2 == median_doubled(xs)
        v == scaled_variance(xs)
        Spike(r) ==
            LET x == OrZero(r.EXECUTION_TIME)
            IN  /\ v # 0
                /\ 2 * x > m2
                /\ n * (n - 1) * (2 * x - m2) * (2 * x - m2) > 36 * v
                /\ 2 * x > 3 * m2
        hits == SelectSeq(group, Spike)
    IN  [i \in 1..Len(hits) |->
            [QUERY_ID |-> hits[i].QUERY_ID, SEVERITY |-> "HIGH",
             ISSUE |-> "Runtime Spike"]]

(* runtime_spikes on a snapshot of any size *)
runtime_spikes_any_size(d) ==
    LET Large(h) == Len(HashGroup(d.rows, h)) >= 3
        keys == SelectSeq(Hashes, Large)
    IN  Flatten([k \in 1..Len(keys) |->
            group_spikes(HashGroup(d.rows, keys[k]))])

(* runtime spikes: only on a snapshot of >= 10 records, per group of      *)
(* size >= 3                                                              *)
runtime_spikes(d) ==
    IF Len(d.rows) < 10
    THEN <<>>
    ELSE LET Large(h) == Len(HashGroup(d.rows, h)) >= 3
             keys == SelectSeq(Hashes, Large)
         IN  Flatten([k \in 1..Len(keys) |->
                 group_spikes(HashGroup(d.rows, keys[k]))])

(* off-hours executions: a LOW issue per record that started in hours 0-4 *)
off_hours(d) ==
    LET Early(r) == (r.START_TIME \div 3600) % 24 < 5
        hits == SelectSeq(d.rows, Early)
    IN  [i \in 1..Len(hits) |->
            [QUERY_ID |-> hits[i].QUERY_ID, SEVERITY |-> "LOW",
             ISSUE |-> "Off-Hours Execution"]]

(* the detector on the snapshot *)
AnomalyDetector ==
    /\ pc = "anomaly"
    /\ anomaly' = [redundant |-> redundant_executions(df),
                   off_hours |-> off_hours(df),
                   spikes |-> runtime_spikes(df)]
    /\ pc' = "done"
    /\ UNCHANGED <<history, df, tables, calls, shown, all_issues_count, critical>>

(* the snapshots of the anomaly detector: up to MaxAnomalyGroup executions *)
(* of one statement and some executions of another, latest first as the   *)
(* history query orders them                                              *)
MaxAnomalyGroup == 10

StartPatterns == {"every_10", "every_899", "every_900", "alternating", "together"}

(* the start time of the k-th execution of the statement *)
StartOf(p, k) ==
    CASE p = "every_10" -> (k - 1) * 10
      [] p = "every_899" -> (k - 1) * 899
      [] p = "every_900" -> (k - 1) * 900
      [] p = "alternating" -> ((k - 1) \div 2) * 910 + ((k - 1) % 2) * 10
      [] p = "together" -> 0

ExecPatterns == {"same", "last_30", "last_31", "skewed"}

(* the execution time of the k-th of n executions of the statement *)
ExecOf(p, k, n) ==
    CASE p = "same" -> 10
      [] p = "last_30" -> IF k = n THEN 30 ELSE 10
      [] p = "last_31" -> IF k = n THEN 31 ELSE 10
      [] p = "skewed" -> IF k = n THEN 61 ELSE IF k > n - 4 THEN 11 ELSE 1

AnomalyHistories ==
    {WithIds([i \in 1..f |->
                 [BaseRow EXCEPT !.QUERY_PARAMETERIZED_HASH = "h2",
                                 !.START_TIME = 100000 + 1000 * (f + 1 - i),
                                 !.EXECUTION_TIME = 10]]
             \o [i \in 1..n |->
                    [BaseRow EXCEPT !.START_TIME = StartOf(sp, n + 1 - i),
                                    !.EXECUTION_TIME = ExecOf(ep, n + 1 - i, n)]]) :
        f \in {0, 1, 7}, n \in 0..MaxAnomalyGroup,
        sp \in StartPatterns, ep \in ExecPatterns}

InitAnomaly ==
    /\ pc = "anomaly"
    /\ history \in AnomalyHistories
    /\ df = Frame(LoadedRows(history), LoadedColumns)
    /\ StartOfRun

SpecAnomaly == InitAnomaly /\ [][AnomalyDetector]_vars

(* ---------------------------------------------------------------------- *)
(* Detectors by name                                                      *)
(* ---------------------------------------------------------------------- *)

(* the outcome of the detector function fn on the frame d *)
Detect(fn, d) ==
    CASE fn = "analyze_select_star" -> analyze_select_star(d)
      [] fn = "analyze_cartesian_joins" -> analyze_cartesian_joins(d)
      [] fn = "analyze_union_vs_union_all" -> analyze_union_vs_union_all(d)
      [] fn = "analyze_function_on_filter" -> analyze_function_on_filter(d)
      [] fn = "analyze_spilling" -> analyze_spilling(d)
      [] fn = "analyze_poor_pruning" -> analyze_poor_pruning(d)
      [] fn = "analyze_warehouse_sizing" -> analyze_warehouse_sizing(d)
      [] fn = "analyze_repeated_expensive_queries" ->
             analyze_repeated_expensive_queries(d)
      [] fn = "analyze_long_compilation" -> analyze_long_compilation(d)
      [] fn = "analyze_cache_efficiency" -> analyze_cache_efficiency(d)
      [] fn = "analyze_query_retries" -> analyze_query_retries(d)
      [] fn = "analyze_full_table_scans" -> analyze_full_table_scans(d)
      [] fn = "analyze_cloud_services" -> analyze_cloud_services(d)

(* the detector functions in the order of their definitions *)
DetectorOrder ==
    <<"analyze_select_star", "analyze_cartesian_joins",
      "analyze_union_vs_union_all", "analyze_function_on_filter",
      "analyze_spilling", "analyze_poor_pruning", "analyze_warehouse_sizing",
      "analyze_repeated_expensive_queries", "analyze_long_compilation",
      "analyze_cache_efficiency", "analyze_query_retries",
      "analyze_full_table_scans", "analyze_cloud_services">>

(* ---------------------------------------------------------------------- *)
(* Properties                                                             *)
(* ---------------------------------------------------------------------- *)

(* the snapshot of a run whose history query succeeded *)
Snapshot == Frame(LoadedRows(history), LoadedColumns)

(* the issues of every detector of the engine on the snapshot, each once *)
IssuesOfAllDetectors ==
    Flatten([k \in 1..Len(DetectorOrder) |->
                Detect(DetectorOrder[k], Snapshot).issues])

(* C1: in every run over a non-empty snapshot the total issue count the   *)
(* summary reports is the sum of the row counts of the issue tables of    *)
(* all detectors of the engine, each detector counted exactly once.       *)
C1_TotalCountsEveryDetector ==
    all_issues_count # NULL =>
        all_issues_count = Len(IssuesOfAllDetectors)

(* C2: in every run the critical count the summary reports is the number  *)
(* of issues, over the issue tables of all detectors, whose severity is   *)
(* CRITICAL, whichever tables are empty.                                  *)
C2_CriticalCountsCriticalIssues ==
    critical # NULL =>
        critical = Len(CriticalRows(
                          [k \in 1..Len(IssuesOfAllDetectors) |->
                              [SEVERITY |-> IssuesOfAllDetectors[k].SEVERITY]]))

(* C3: in a run over a non-empty snapshot every detector function the     *)
(* engine defines is invoked exactly once.                                *)
C3_EveryDetectorInvokedOnce ==
    (pc = "done" /\ ~IsEmpty(df)) =>
        \A fn \in DetectorNames : calls[fn] = 1

(* the issues of a table that name the record with this QUERY_ID *)
IssuesFor(table, id) ==
    LET Names(issue) == issue.QUERY_ID = id
    IN  SelectSeq(table, Names)

(* the upper-cased text of the i-th record of the snapshot *)
TextOf(i) == StrUpper(df.rows[i].QUERY_TEXT)

(* a byte count is present and > g GiB *)
OverGiB(b, g) == b.gib # NULL /\ (b.gib > g \/ (b.gib = g /\ b.rem > 0))

(* the word w stands at position p as a whole token *)
TokenAt(t, w, p) ==
    /\ p \in Occurrences(t, w)
    /\ ~IsWordAt(t, p - 1)
    /\ ~IsWordAt(t, p + Len(w))

(* SELECT <identifier>.* for identifiers of letters, digits and _ *)
SelectIdentifierStar ==
    Lit(Keyword.SELECT)
        \o <<Plus(WhiteSpace), Plus(UpperLetters \cup Digits \cup {"_"}),
             One({"."}), One({"*"})>>

Wildcard(t) ==
    ReSearch(SelectStarFromPattern, t) \/ ReSearch(SelectIdentifierStar, t)

(* C4: for every record the wildcard-projection detector emits an issue   *)
(* iff the upper-cased text contains SELECT * FROM or SELECT <id>.* for   *)
(* any identifier, digits included, and the issue is HIGH iff bytes       *)
(* scanned > 2^30 (missing counted as 0), otherwise MEDIUM.               *)
C4_WildcardIffSelectStar ==
    (calls["analyze_select_star"] = 1 /\ pc # "error") =>
        \A i \in 1..Len(df.rows) :
            LET found == IssuesFor(tables.select_star_issues, df.rows[i].QUERY_ID)
            IN  /\ (found # <<>>) <=> Wildcard(TextOf(i))
                /\ \A k \in 1..Len(found) :
                       found[k].SEVERITY =
                           IF OverGiB(df.rows[i].BYTES_SCANNED, 1)
                           THEN "HIGH" ELSE "MEDIUM"

(* some JOIN of the text has no ON or USING token after it *)
JoinNotFollowedByOnOrUsing(t) ==
    \E p \in Occurrences(t, Keyword.JOIN) :
        ~\E q \in (p + Len(Keyword.JOIN))..Len(t) :
            TokenAt(t, Keyword.ON, q) \/ TokenAt(t, Keyword.USING, q)

CommaFromListWithoutWhere(t) ==
    ReSearch(CommaJoinPattern, t) /\ ~Contains(t, Keyword.WHERE)

(* C5: for every record the join detector reports a missing-join-         *)
(* predicate issue with severity CRITICAL iff the upper-cased text has a  *)
(* JOIN that is not followed by an ON or USING token, or has a comma-     *)
(* separated FROM list and no WHERE; 'SELECT a.* FROM a, b' yields both a *)
(* wildcard-projection issue and a CRITICAL join issue.                   *)
C5_MissingJoinPredicateIff ==
    (calls["analyze_cartesian_joins"] = 1 /\ pc # "error") =>
        \A i \in 1..Len(df.rows) :
            LET found == IssuesFor(tables.cartesian_issues, df.rows[i].QUERY_ID)
                reported == \E k \in 1..Len(found) :
                               /\ found[k].PROBLEM = "Missing ON/USING clause in JOIN"
                               /\ found[k].SEVERITY = "CRITICAL"
            IN  /\ reported <=>
                       (JoinNotFollowedByOnOrUsing(TextOf(i))
                            \/ CommaFromListWithoutWhere(TextOf(i)))
                /\ df.rows[i].QUERY_TEXT = T_SCENARIO_B =>
                       /\ reported
                       /\ IssuesFor(tables.select_star_issues,
                                    df.rows[i].QUERY_ID) # <<>>

(* a byte count is present and > 0 *)
Spilled(b) == b.gib # NULL /\ (b.gib > 0 \/ b.rem > 0)

(* C6: for every record the spilling detector emits an issue iff local    *)
(* spill bytes > 0 or remote spill bytes > 0 (missing counted as 0); the  *)
(* issue is CRITICAL iff remote spill bytes > 0 and HIGH when only local  *)
(* spill is present.                                                      *)
C6_SpillingIffSpilled ==
    (calls["analyze_spilling"] = 1 /\ pc # "error") =>
        \A i \in 1..Len(df.rows) :
            LET found == IssuesFor(tables.spilling_issues, df.rows[i].QUERY_ID)
                local == Spilled(df.rows[i].BYTES_SPILLED_TO_LOCAL_STORAGE)
                remote == Spilled(df.rows[i].BYTES_SPILLED_TO_REMOTE_STORAGE)
            IN  /\ Len(found) = IF local \/ remote THEN 1 ELSE 0
                /\ \A k \in 1..Len(found) :
                       /\ found[k].SEVERITY = "CRITICAL" <=> remote
                       /\ (local /\ ~remote) => found[k].SEVERITY = "HIGH"

(* scenario D: remote spill of 5 GiB without local spill is reported as   *)
(* CRITICAL                                                               *)
C6_Witness ==
    \E i \in 1..Len(df.rows) :
        /\ df.rows[i].BYTES_SPILLED_TO_REMOTE_STORAGE = Bytes(5, 0)
        /\ df.rows[i].BYTES_SPILLED_TO_LOCAL_STORAGE = Bytes(0, 0)
        /\ calls["analyze_spilling"] = 1
        /\ \E k \in 1..Len(tables.spilling_issues) :
               /\ tables.spilling_issues[k].QUERY_ID = df.rows[i].QUERY_ID
               /\ tables.spilling_issues[k].SEVERITY = "CRITICAL"

(* the words that end an ON clause *)
ClauseBoundaries ==
    {Keyword.WHERE, Keyword.GROUP_BY, Keyword.ORDER_BY, Keyword.LIMIT,
     Keyword.UNION_WORD}

(* an OR token inside an ON clause: after a JOIN's ON and before the next *)
(* clause boundary                                                        *)
OrInsideOnClause(t) ==
    \E p \in Occurrences(t, Keyword.JOIN) :
        \E q \in (p + Len(Keyword.JOIN))..Len(t) :
            /\ TokenAt(t, Keyword.ON, q)
            /\ \E r \in (q + Len(Keyword.ON))..Len(t) :
                   /\ TokenAt(t, Keyword.OR, r)
                   /\ \A w \in ClauseBoundaries :
                          Occurrences(t, w) \cap q..r = {}

(* C9: the join detector's disjunctive-join-predicate condition holds for *)
(* a record only when an OR occurs inside an ON clause, between a JOIN    *)
(* and the next clause boundary (an OR in a later WHERE clause does not   *)
(* make it fire); an issue reported for that reason has severity HIGH.    *)
C9_OrOnlyInsideOnClause ==
    (calls["analyze_cartesian_joins"] = 1 /\ pc # "error") =>
        \A i \in 1..Len(df.rows) :
            LET found == IssuesFor(tables.cartesian_issues, df.rows[i].QUERY_ID)
            IN  /\ has_or_in_join(TextOf(i)) => OrInsideOnClause(TextOf(i))
                /\ \A k \in 1..Len(found) :
                       found[k].PROBLEM = "OR condition in JOIN clause" =>
                           /\ OrInsideOnClause(TextOf(i))
                           /\ found[k].SEVERITY = "HIGH"

(* the part of the text after the first WHERE, cut at the earliest        *)
(* occurrence of GROUP BY, ORDER BY or LIMIT                              *)
FilterPart(t) ==
    LET rest == SubSeq(t, Min(Occurrences(t, Keyword.WHERE))
                              + Len(Keyword.WHERE), Len(t))
        cuts == Occurrences(rest, Keyword.GROUP_BY)
                    \cup Occurrences(rest, Keyword.ORDER_BY)
                    \cup Occurrences(rest, Keyword.LIMIT)
    IN  IF cuts = {} THEN rest ELSE SubSeq(rest, 1, Min(cuts) - 1)

(* the function name as a word, an open parenthesis and an identifier *)
AppliedToIdentifier(name) ==
    <<WordB>> \o Lit(name)
              \o <<Star(WhiteSpace), One({"("}), Star(WhiteSpace),
                   Plus(WordChars)>>

(* DATE_TRUNC( part , identifier: the part optionally quoted *)
TruncAppliedToIdentifier ==
    <<WordB>> \o Lit(Keyword.DATE_TRUNC)
              \o <<Star(WhiteSpace), One({"("}), Star(WhiteSpace),
                   Opt({"'", "\""}), Plus(WordChars), Opt({"'", "\""}),
                   Star(WhiteSpace), One({","}), Star(WhiteSpace),
                   Plus(WordChars)>>

OneArgumentFunctions ==
    {Keyword.YEAR, Keyword.MONTH, Keyword.DATE, Keyword.TO_DATE,
     Keyword.UPPER, Keyword.LOWER, Keyword.TRIM, Keyword.SUBSTR}

(* the issues of the function-on-filter table are those of the records    *)
(* that satisfy Fires, graded HIGH iff partitions total > 100             *)
FunctionFilterReports(Fires(_)) ==
    (calls["analyze_function_on_filter"] = 1 /\ pc # "error") =>
        \A i \in 1..Len(df.rows) :
            LET found == IssuesFor(tables.function_filter_issues,
                                   df.rows[i].QUERY_ID)
                total == df.rows[i].PARTITIONS_TOTAL
            IN  /\ (found # <<>>) <=> Fires(TextOf(i))
                /\ \A k \in 1..Len(found) :
                       found[k].SEVERITY =
                           IF total # NULL /\ total > 100
                           THEN "HIGH" ELSE "MEDIUM"

(* C10 as stated: for every record the function-on-filter detector emits  *)
(* an issue iff the text contains WHERE and the part after the first      *)
(* WHERE, cut at the earliest GROUP BY, ORDER BY or LIMIT, contains one   *)
(* of YEAR, MONTH, DATE, TO_DATE, DATE_TRUNC, UPPER, LOWER, TRIM, SUBSTR  *)
(* immediately applied to an identifier in parentheses; the severity is   *)
(* HIGH iff partitions total > 100 (missing counted as 0), else MEDIUM.   *)
C10_AnyFunctionAppliedToIdentifier ==
    LET Fires(t) ==
            /\ Contains(t, Keyword.WHERE)
            /\ \E name \in OneArgumentFunctions \cup {Keyword.DATE_TRUNC} :
                   ReSearch(AppliedToIdentifier(name), FilterPart(t))
    IN  FunctionFilterReports(Fires)

(* C10 amended: as stated for the eight one-argument functions, while     *)
(* DATE_TRUNC counts only in its two-argument form, DATE_TRUNC(part,      *)
(* identifier with the part optionally quoted.                            *)
C10_FunctionOnFilterIff ==
    LET Fires(t) ==
            /\ Contains(t, Keyword.WHERE)
            /\ \/ \E name \in OneArgumentFunctions :
                      ReSearch(AppliedToIdentifier(name), FilterPart(t))
               \/ ReSearch(TruncAppliedToIdentifier, FilterPart(t))
    IN  FunctionFilterReports(Fires)

(* a record whose filter applies DATE_TRUNC('day', d), followed by a      *)
(* GROUP BY that applies YEAR, over 101 partitions: reported as HIGH for  *)
(* DATE_TRUNC() alone                                                     *)
C10_Witness ==
    \E i \in 1..Len(df.rows) :
        /\ df.rows[i].QUERY_TEXT = S_ID \o F_T \o C_TRUNC_2 \o E_GROUP
        /\ df.rows[i].PARTITIONS_TOTAL = 101
        /\ calls["analyze_function_on_filter"] = 1
        /\ \E k \in 1..Len(tables.function_filter_issues) :
               /\ tables.function_filter_issues[k].QUERY_ID = df.rows[i].QUERY_ID
               /\ tables.function_filter_issues[k].SEVERITY = "HIGH"
               /\ tables.function_filter_issues[k].FUNCTIONS_DETECTED
                      = <<"DATE_TRUNC()">>

(* the table the script assigns the result of each detector it calls to *)
TableOf ==
    [fn \in DetectorNames \ {"analyze_cloud_services"} |->
        CASE fn = "analyze_select_star" -> "select_star_issues"
          [] fn = "analyze_cartesian_joins" -> "cartesian_issues"
          [] fn = "analyze_union_vs_union_all" -> "union_issues"
          [] fn = "analyze_function_on_filter" -> "function_filter_issues"
          [] fn = "analyze_spilling" -> "spilling_issues"
          [] fn = "analyze_poor_pruning" -> "pruning_issues"
          [] fn = "analyze_warehouse_sizing" -> "warehouse_issues"
          [] fn = "analyze_repeated_expensive_queries" -> "repeated_issues"
          [] fn = "analyze_long_compilation" -> "compilation_issues"
          [] fn = "analyze_cache_efficiency" -> "cache_issues"
          [] fn = "analyze_query_retries" -> "retry_issues"
          [] fn = "analyze_full_table_scans" -> "full_scan_issues"]

(* the snapshot lacks the fingerprint-hash column and no other column *)
LacksHashColumn(d) ==
    /\ "QUERY_PARAMETERIZED_HASH" \notin d.cols
    /\ LoadedColumns \ {"QUERY_PARAMETERIZED_HASH"} \subseteq d.cols

(* the same snapshot with the fingerprint-hash column *)
WithHashColumn(d) == Frame(d.rows, d.cols \cup {"QUERY_PARAMETERIZED_HASH"})

C8_FailedLoadEndsInNoData ==
    <<"Error loading query history", 0>> \in shown =>
        /\ IsEmpty(df)
        /\ \A fn \in DetectorNames : Detect(fn, df) = Returned(<<>>)
        /\ pc \in {"guard", "done"}
        /\ tables = [t \in TableNames |-> <<>>]
        /\ all_issues_count = NULL /\ critical = NULL
        /\ pc = "done" =>
               shown = {<<"Error loading query history", 0>>,
                        <<"No query history data available", 0>>}

(* a count or a duration is present and > n *)
Over(x, n) == x # NULL /\ x > n

(* the first word of the text, leading white space aside, is SELECT *)
StartsWithSelect(t) ==
    \E p \in Occurrences(t, Keyword.SELECT) :
        \A j \in 1..(p - 1) : t[j] \in WhiteSpace

(* C11: for every record the full-table-scan detector emits an issue, of  *)
(* severity MEDIUM, iff the text contains neither WHERE nor LIMIT and     *)
(* either (partitions total > 200 and partitions scanned = partitions     *)
(* total) or (bytes scanned > 50 GiB and execution time > 120 s and the   *)
(* text starts with SELECT).                                              *)
C11_FullScanIff ==
    (calls["analyze_full_table_scans"] = 1 /\ pc # "error") =>
        \A i \in 1..Len(df.rows) :
            LET found == IssuesFor(tables.full_scan_issues, df.rows[i].QUERY_ID)
                r == df.rows[i]
                unfiltered == /\ ~Contains(TextOf(i), Keyword.WHERE)
                              /\ ~Contains(TextOf(i), Keyword.LIMIT)
                all_partitions == /\ Over(r.PARTITIONS_TOTAL, 200)
                                  /\ r.PARTITIONS_SCANNED = r.PARTITIONS_TOTAL
                very_large == /\ OverGiB(r.BYTES_SCANNED, 50)
                              /\ Over(r.EXECUTION_TIME, 120000)
                              /\ StartsWithSelect(TextOf(i))
            IN  /\ Len(found) =
                       IF unfiltered /\ (all_partitions \/ very_large)
                       THEN 1 ELSE 0
                /\ \A k \in 1..Len(found) : found[k].SEVERITY = "MEDIUM"

(* a SELECT without filter over more than 50 GiB that ran for more than   *)
(* 120 s and did not scan all of its partitions is reported               *)
C11_Witness ==
    \E i \in 1..Len(df.rows) :
        /\ df.rows[i].QUERY_TEXT = S_ID \o F_T
        /\ df.rows[i].BYTES_SCANNED = Bytes(50, 1)
        /\ df.rows[i].EXECUTION_TIME = 120001
        /\ df.rows[i].PARTITIONS_SCANNED = 200
        /\ df.rows[i].PARTITIONS_TOTAL = 201
        /\ calls["analyze_full_table_scans"] = 1
        /\ IssuesFor(tables.full_scan_issues, df.rows[i].QUERY_ID) # <<>>

(* a missing count stands for 0 *)
CountOf(x) == IF x = NULL THEN 0 ELSE x

(* C12: for every record the poor-pruning detector emits an issue iff     *)
(* partitions total > 50 and partitions scanned / partitions total > 50%; *)
(* the severity is HIGH iff that ratio is > 80%, else MEDIUM (exactly 50% *)
(* does not fire and exactly 80% is MEDIUM).                              *)
C12_PoorPruningIff ==
    (calls["analyze_poor_pruning"] = 1 /\ pc # "error") =>
        \A i \in 1..Len(df.rows) :
            LET found == IssuesFor(tables.pruning_issues, df.rows[i].QUERY_ID)
                scanned == CountOf(df.rows[i].PARTITIONS_SCANNED)
                total == CountOf(df.rows[i].PARTITIONS_TOTAL)
            IN  /\ Len(found) =
                       IF total > 50 /\ 2 * scanned > total THEN 1 ELSE 0
                /\ \A k \in 1..Len(found) :
                       found[k].SEVERITY =
                           IF 5 * scanned > 4 * total THEN "HIGH" ELSE "MEDIUM"

(* 80 of 100 partitions scanned: reported, as MEDIUM *)
C12_Witness ==
    \E i \in 1..Len(df.rows) :
        /\ df.rows[i].PARTITIONS_SCANNED = 80
        /\ df.rows[i].PARTITIONS_TOTAL = 100
        /\ calls["analyze_poor_pruning"] = 1
        /\ \E k \in 1..Len(tables.pruning_issues) :
               /\ tables.pruning_issues[k].QUERY_ID = df.rows[i].QUERY_ID
               /\ tables.pruning_issues[k].SEVERITY = "MEDIUM"

(* the fingerprint hashes of the snapshot's records *)
HashesOfSnapshot ==
    {df.rows[i].QUERY_PARAMETERIZED_HASH : i \in 1..Len(df.rows)} \ {NullStr}

(* the records of the snapshot that satisfy Of, in order *)
RecordsWhere(Of(_)) == SelectSeq(df.rows, Of)

(* the sum of a numeric field over records, a missing value counting 0 *)
Total(records, field) ==
    SumSeq([i \in 1..Len(records) |-> CountOf(records[i][field])])

(* C13: for every fingerprint-hash group of the snapshot the repeated-    *)
(* expensive-query detector emits exactly one issue iff the number of     *)
(* executions in the group is >= 5 and the group's summed execution time  *)
(* is > 60 s, and no issue otherwise; the severity is HIGH iff the summed *)
(* time is > 300 s, else MEDIUM.                                          *)
C13_RepeatedIffFiveOverSixtySeconds ==
    (calls["analyze_repeated_expensive_queries"] = 1 /\ pc # "error") =>
        \A h \in HashesOfSnapshot :
            LET Of(r) == r.QUERY_PARAMETERIZED_HASH = h
                group == RecordsWhere(Of)
                Names(issue) == \E i \in 1..Len(group) :
                                    issue.QUERY_ID = group[i].QUERY_ID
                found == SelectSeq(tables.repeated_issues, Names)
                summed == Total(group, "EXECUTION_TIME")
            IN  /\ Len(found) =
                       IF Len(group) >= 5 /\ summed > 60000 THEN 1 ELSE 0
                /\ \A k \in 1..Len(found) :
                       found[k].SEVERITY =
                           IF summed > 300000 THEN "HIGH" ELSE "MEDIUM"

(* the (warehouse, size) pairs of the snapshot's records *)
WarehousesOfSnapshot ==
    LET pairs == {<<df.rows[i].WAREHOUSE_NAME, df.rows[i].WAREHOUSE_SIZE>> :
                     i \in 1..Len(df.rows)}
    IN  {w \in pairs : w[1] # NullStr /\ w[2] # NullStr}

(* the records of a (warehouse, size) group *)
RecordsOfWarehouse(w) ==
    LET Of(r) == r.WAREHOUSE_NAME = w[1] /\ r.WAREHOUSE_SIZE = w[2]
    IN  RecordsWhere(Of)

(* the issues of that kind the warehouse table holds for the group *)
WarehouseIssues(w, kind) ==
    LET Is(issue) == /\ issue.WAREHOUSE = w[1] /\ issue.SIZE = w[2]
                     /\ issue.ISSUE = kind
    IN  SelectSeq(tables.warehouse_issues, Is)

(* C14: for every (warehouse, size) group of the snapshot the warehouse-  *)
(* sizing detector emits an Oversized issue with severity MEDIUM iff the  *)
(* mean execution time over all of the group's records is < 3 s and the   *)
(* size is one of LARGE, X-LARGE, 2X-LARGE, 3X-LARGE, 4X-LARGE.           *)
C14_OversizedIffMeanBelowThree ==
    (calls["analyze_warehouse_sizing"] = 1 /\ pc # "error") =>
        \A w \in WarehousesOfSnapshot :
            LET group == RecordsOfWarehouse(w)
                found == WarehouseIssues(w, "Oversized Warehouse")
                large == w[2] \in {"LARGE", "X-LARGE", "2X-LARGE", "3X-LARGE",
                                   "4X-LARGE"}
            IN  /\ Len(found) =
                       IF large /\ Total(group, "EXECUTION_TIME") < 3000 * Len(group)
                       THEN 1 ELSE 0
                /\ \A k \in 1..Len(found) : found[k].SEVERITY = "MEDIUM"

(* C15: for every (warehouse, size) group of the snapshot the warehouse-  *)
(* sizing detector emits a Queuing issue with severity HIGH iff the sum   *)
(* of queued-overload time over the group's records is > 60,000 ms,       *)
(* whether or not an Oversized issue is emitted for the same group.       *)
C15_QueuingIffOverloadOverSixtySeconds ==
    (calls["analyze_warehouse_sizing"] = 1 /\ pc # "error") =>
        \A w \in WarehousesOfSnapshot :
            LET group == RecordsOfWarehouse(w)
                found == WarehouseIssues(w, "Warehouse Queuing (Overload)")
            IN  /\ Len(found) =
                       IF Total(group, "QUEUED_OVERLOAD_TIME") > 60000
                       THEN 1 ELSE 0
                /\ \A k \in 1..Len(found) : found[k].SEVERITY = "HIGH"

(* a LARGE warehouse whose five executions of 2 s queued 12.001 s each is *)
(* reported both as oversized and as queuing                              *)
C15_Witness ==
    /\ calls["analyze_warehouse_sizing"] = 1
    /\ Len(df.rows) = 5
    /\ \A i \in 1..Len(df.rows) :
           /\ df.rows[i].WAREHOUSE_SIZE = "LARGE"
           /\ df.rows[i].EXECUTION_TIME = 2000
           /\ df.rows[i].QUEUED_OVERLOAD_TIME = 12001
    /\ Len(WarehouseIssues(<<"WH_A", "LARGE">>, "Oversized Warehouse")) = 1
    /\ Len(WarehouseIssues(<<"WH_A", "LARGE">>, "Warehouse Queuing (Overload)")) = 1

(* a whole-word UNION that is not followed by white space and ALL *)
BareUnion(t) ==
    \E p \in 1..Len(t) :
        /\ TokenAt(t, Keyword.UNION_WORD, p)
        /\ ~\E q \in (p + Len(Keyword.UNION_WORD) + 1)..Len(t) :
               /\ \A j \in (p + Len(Keyword.UNION_WORD))..(q - 1) :
                      t[j] \in WhiteSpace
               /\ q \in Occurrences(t, Keyword.ALL)

(* C16: for every record the UNION detector emits an issue, of severity   *)
(* LOW, iff the upper-cased text contains a whole-word UNION that is not  *)
(* immediately followed by ALL; a text in which every UNION is followed   *)
(* by ALL yields no issue and a text with at least one bare UNION yields  *)
(* exactly one issue.                                                     *)
C16_UnionIffBareUnion ==
    (calls["analyze_union_vs_union_all"] = 1 /\ pc # "error") =>
        \A i \in 1..Len(df.rows) :
            LET found == IssuesFor(tables.union_issues, df.rows[i].QUERY_ID)
            IN  /\ Len(found) = IF BareUnion(TextOf(i)) THEN 1 ELSE 0
                /\ \A k \in 1..Len(found) : found[k].SEVERITY = "LOW"

(* a text with a UNION ALL and two bare UNIONs yields one issue *)
C16_Witness ==
    \E i \in 1..Len(df.rows) :
        /\ df.rows[i].QUERY_TEXT =
               S_ID \o F_A \o U_DISTINCT \o S_ID \o F_T \o U_BARE \o S_ID \o F_T
        /\ calls["analyze_union_vs_union_all"] = 1
        /\ Len(IssuesFor(tables.union_issues, df.rows[i].QUERY_ID)) = 1

(* rows produced > 10,000,000, bytes scanned > 0, execution time > 60 s   *)
(* and more than 100 rows per byte scanned                                *)
Explodes(r) ==
    /\ Over(r.ROWS_PRODUCED, 10000000)
    /\ Spilled(r.BYTES_SCANNED)
    /\ Over(r.EXECUTION_TIME, 60000)
    /\ r.BYTES_SCANNED.gib = 0
    /\ r.BYTES_SCANNED.rem <= (r.ROWS_PRODUCED - 1) \div 100

(* C17: for every record the join detector's row-explosion condition      *)
(* holds iff rows produced > 10,000,000 and bytes scanned > 0 and         *)
(* execution time > 60 s and rows produced / bytes scanned > 100; a       *)
(* record for which only this condition holds yields one join issue with  *)
(* severity HIGH.                                                         *)
C17_RowExplosionIff ==
    (calls["analyze_cartesian_joins"] = 1 /\ pc # "error") =>
        \A i \in 1..Len(df.rows) :
            LET r == df.rows[i]
                found == IssuesFor(tables.cartesian_issues, r.QUERY_ID)
                others == \/ missing_join_condition(TextOf(i))
                          \/ has_cross_join(TextOf(i))
                          \/ has_or_in_join(TextOf(i))
            IN  /\ high_row_explosion(OrZero(r.ROWS_PRODUCED),
                                      OrZeroBytes(r.BYTES_SCANNED),
                                      r.EXECUTION_TIME_SEC) <=> Explodes(r)
                /\ ~others =>
                       /\ Len(found) = IF Explodes(r) THEN 1 ELSE 0
                       /\ \A k \in 1..Len(found) :
                              /\ found[k].SEVERITY = "HIGH"
                              /\ found[k].PROBLEM = "Row explosion"

(* 10,000,001 rows out of 100,000 bytes in 60.001 s, no join in the text: *)
(* one HIGH issue                                                         *)
C17_Witness ==
    \E i \in 1..Len(df.rows) :
        /\ df.rows[i].QUERY_TEXT = T_PLAIN
        /\ df.rows[i].ROWS_PRODUCED = 10000001
        /\ df.rows[i].BYTES_SCANNED = Bytes(0, 100000)
        /\ df.rows[i].EXECUTION_TIME = 60001
        /\ calls["analyze_cartesian_joins"] = 1
        /\ \E k \in 1..Len(tables.cartesian_issues) :
               /\ tables.cartesian_issues[k].QUERY_ID = df.rows[i].QUERY_ID
               /\ tables.cartesian_issues[k].SEVERITY = "HIGH"

(* the records of a fingerprint-hash group of the snapshot *)
RecordsOfHash(h) ==
    LET Of(r) == r.QUERY_PARAMETERIZED_HASH = h
    IN  RecordsWhere(Of)

(* the number of consecutive start-time gaps < 900 s of a group: all gaps *)
(* but those from a start time to a next one at least 900 s later         *)
ShortGapCount(group) ==
    LET S == {group[i].START_TIME : i \in 1..Len(group)}
        long == {v \in S : \E u \in S : /\ u - v >= 900
                                        /\ ~\E w \in S : v < w /\ w < u}
    IN  (Len(group) - 1) - Cardinality(long)

(* C18: the redundant-execution check emits exactly one issue for a       *)
(* fingerprint group iff the group has >= 3 executions and, sorted by     *)
(* start time, at least 2 consecutive start-time gaps are < 900 s; the    *)
(* severity is HIGH iff the short-gap count is >= 5, else MEDIUM; groups  *)
(* of size < 3 never produce this issue.                                  *)
C18_RedundantIffTwoShortGaps ==
    pc = "done" =>
        \A h \in HashesOfSnapshot :
            LET group == RecordsOfHash(h)
                Names(issue) == issue.QUERY_PARAMETERIZED_HASH = h
                found == SelectSeq(anomaly.redundant, Names)
            IN  /\ Len(found) =
                       IF Len(group) >= 3 /\ ShortGapCount(group) >= 2
                       THEN 1 ELSE 0
                /\ \A k \in 1..Len(found) :
                       found[k].SEVERITY =
                           IF ShortGapCount(group) >= 5 THEN "HIGH" ELSE "MEDIUM"
                /\ Len(group) < 3 => found = <<>>

(* scenario C: 5 executions, each 10 s after the other, give one issue    *)
(* with short-gap count 4 and severity MEDIUM                             *)
C18_Witness ==
    /\ pc = "done"
    /\ Len(RecordsOfHash("h1")) = 5
    /\ {RecordsOfHash("h1")[i].START_TIME : i \in 1..5} = {0, 10, 20, 30, 40}
    /\ \E k \in 1..Len(anomaly.redundant) :
           /\ anomaly.redundant[k].QUERY_PARAMETERIZED_HASH = "h1"
           /\ anomaly.redundant[k].SHORT_GAPS = 4
           /\ anomaly.redundant[k].SEVERITY = "MEDIUM"

(* the k-th smallest of the execution times of a group *)
KthSmallest(group, k) ==
    LET Time(i) == CountOf(group[i].EXECUTION_TIME)
        AtMost(v) == Cardinality({i \in 1..Len(group) : Time(i) <= v})
    IN  Min({Time(i) : i \in {j \in 1..Len(group) : AtMost(Time(j)) >= k}})

(* twice the median of the execution times of a group *)
TwiceMedian(group) ==
    LET n == Len(group)
    IN  IF n % 2 = 1
        THEN 2 * KthSmallest(group, (n + 1) \div 2)
        ELSE KthSmallest(group, n \div 2) + KthSmallest(group, (n \div 2) + 1)

(* C19: the runtime-spike check never emits an issue when the snapshot    *)
(* has fewer than 10 records, for a fingerprint group of size < 3, or for *)
(* a group whose execution times are all identical; and every record it   *)
(* flags has an execution time > 3 x the median of its group.             *)
C19_SpikesOnlyWhereAllowed ==
    pc = "done" =>
        /\ Len(df.rows) < 10 => anomaly.spikes = <<>>
        /\ \A k \in 1..Len(anomaly.spikes) :
               \E i \in 1..Len(df.rows) :
                   LET r == df.rows[i]
                       group == RecordsOfHash(r.QUERY_PARAMETERIZED_HASH)
                   IN  /\ r.QUERY_ID = anomaly.spikes[k].QUERY_ID
                       /\ r.QUERY_PARAMETERIZED_HASH # NullStr
                       /\ Len(group) >= 3
                       /\ \E j \in 1..Len(group) :
                              group[j].EXECUTION_TIME # group[1].EXECUTION_TIME
                       /\ 2 * CountOf(r.EXECUTION_TIME) > 3 * TwiceMedian(group)

(* a snapshot of 10 records in which one execution of 61 ms is flagged    *)
(* in a group whose median is 1 ms                                        *)
C19_Witness ==
    /\ pc = "done"
    /\ Len(df.rows) = 10
    /\ \E k \in 1..Len(anomaly.spikes) :
           \E i \in 1..Len(df.rows) :
               /\ df.rows[i].QUERY_ID = anomaly.spikes[k].QUERY_ID
               /\ df.rows[i].EXECUTION_TIME = 61
               /\ TwiceMedian(RecordsOfHash("h1")) = 2

(* a missing byte count stands for 0 bytes *)
BytesOf(b) == IF b = NullBytes THEN Bytes(0, 0) ELSE b

(* the record with 0 in place of every missing numeric value *)
ZeroFilled(r) ==
    [r EXCEPT !.TOTAL_ELAPSED_TIME = CountOf(@),
              !.EXECUTION_TIME = CountOf(@),
              !.COMPILATION_TIME = CountOf(@),
              !.QUEUED_PROVISIONING_TIME = CountOf(@),
              !.QUEUED_OVERLOAD_TIME = CountOf(@),
              !.BYTES_SCANNED = BytesOf(@),
              !.BYTES_SPILLED_TO_LOCAL_STORAGE = BytesOf(@),
              !.BYTES_SPILLED_TO_REMOTE_STORAGE = BytesOf(@),
              !.PARTITIONS_SCANNED = CountOf(@),
              !.PARTITIONS_TOTAL = CountOf(@),
              !.PERCENTAGE_SCANNED_FROM_CACHE = CountOf(@),
              !.ROWS_PRODUCED = CountOf(@),
              !.CREDITS_USED_CLOUD_SERVICES = CountOf(@),
              !.QUERY_RETRY_TIME = CountOf(@),
              !.TOTAL_ELAPSED_TIME_SEC = MsToSec(CountOf(r.TOTAL_ELAPSED_TIME)),
              !.EXECUTION_TIME_SEC = MsToSec(CountOf(r.EXECUTION_TIME)),
              !.COMPILATION_TIME_SEC = MsToSec(CountOf(r.COMPILATION_TIME))]

(* the snapshot with 0 in place of every missing numeric value *)
ZeroFilledSnapshot ==
    Frame([i \in 1..Len(df.rows) |-> ZeroFilled(df.rows[i])], df.cols)

(* C20: for every detector and every numeric field it tests, a record in  *)
(* which the field is missing produces the same detector outcome as the   *)
(* same record with the field equal to 0: a missing value is excluded     *)
(* neither from a per-row test nor from a group aggregate (mean, sum,     *)
(* count).                                                                *)
C20_MissingCountsAsZero ==
    ~IsEmpty(df) =>
        \A fn \in DetectorNames : Detect(fn, df) = Detect(fn, ZeroFilledSnapshot)

(* a denominator is at least 1, or the quotient is not computed *)
AtLeastOne(den) == den.skipped \/ den.by >= 1

AtLeastOneByte(den) == den.skipped \/ BytesGT(den.by, Bytes(0, 0))

(* the columns the three quotients are computed from *)
RatioColumns ==
    {"ROWS_PRODUCED", "BYTES_SCANNED", "EXECUTION_TIME_SEC",
     "PARTITIONS_TOTAL", "TOTAL_ELAPSED_TIME"}

C22_SnapshotNeverModified ==
    [][pc # "load" => df' = df]_vars

(* the labels under which the page shows results of detectors *)
DetectorResultLabels ==
    {"SELECT * Issues", "Join Issues", "UNION Issues", "Function Filter Issues",
     "Memory Spilling", "Poor Pruning", "Warehouse Issues", "Repeated Expensive",
     "Total Issues Found", "Critical Issues"}

(* the page shows a result of a detector *)
DetectorResultShown == \E s \in shown : s[1] \in DetectorResultLabels

(* C23: in every run over a non-empty snapshot all detectors have run to  *)
(* completion before any detector result is shown: once a result is shown *)
(* no step invokes a detector.                                            *)
C23_DetectorsBeforeResults ==
    [][DetectorResultShown => calls' = calls]_vars

(* the records the full-table-scan detector reports through its partition *)
(* condition                                                              *)
ScannedAllPartitions ==
    {i \in 1..Len(df.rows) :
        /\ Over(df.rows[i].PARTITIONS_TOTAL, 200)
        /\ df.rows[i].PARTITIONS_SCANNED = df.rows[i].PARTITIONS_TOTAL
        /\ ~Contains(TextOf(i), Keyword.WHERE)
        /\ ~Contains(TextOf(i), Keyword.LIMIT)
        /\ IssuesFor(tables.full_scan_issues, df.rows[i].QUERY_ID) # <<>>}

(* C24: a record the full-table-scan detector reports through its         *)
(* partition condition (partitions total > 200, all of them scanned, no   *)
(* WHERE, no LIMIT) is also reported by the poor-pruning detector, with   *)
(* severity HIGH, and so counts twice in the total issue count.           *)
C24_FullScanAlsoPoorPruning ==
    (calls["analyze_full_table_scans"] = 1 /\ pc # "error") =>
        /\ \A i \in ScannedAllPartitions :
               LET found == IssuesFor(tables.pruning_issues, df.rows[i].QUERY_ID)
               IN  /\ Len(found) = 1
                   /\ found[1].SEVERITY = "HIGH"
                   /\ found[1].ISSUE = "Poor Partition Pruning"
        /\ all_issues_count # NULL =>
               all_issues_count >= 2 * Cardinality(ScannedAllPartitions)

(* the summary counted two issues for the one record of a run, a query    *)
(* without filter that scanned all 201 partitions                         *)
C24_Witness ==
    /\ pc = "done"
    /\ ScannedAllPartitions = {1}
    /\ df.rows[1].PARTITIONS_TOTAL = 201
    /\ Len(tables.full_scan_issues) = 1
    /\ Len(tables.pruning_issues) = 1
    /\ all_issues_count = 2

(* the four conditions of the join detector that hold of the i-th record, *)
(* in the order of their priority                                         *)
JoinConditions(i) ==
    <<missing_join_condition(TextOf(i)), has_cross_join(TextOf(i)),
      has_or_in_join(TextOf(i)), Explodes(df.rows[i])>>

(* C25: the join detector emits at most one issue per record, however     *)
(* many of its four conditions hold; the issue is CRITICAL iff the        *)
(* missing-join-condition or the CROSS JOIN condition holds, and its      *)
(* PROBLEM names exactly one reason, the first that holds of: missing     *)
(* join condition, CROSS JOIN, OR in join, row explosion.                 *)
C25_OneJoinIssueByPriority ==
    (calls["analyze_cartesian_joins"] = 1 /\ pc # "error") =>
        \A i \in 1..Len(df.rows) :
            \A c \in {JoinConditions(i)},
               found \in {IssuesFor(tables.cartesian_issues, df.rows[i].QUERY_ID)} :
                /\ Len(found) = IF \E k \in 1..4 : c[k] THEN 1 ELSE 0
                /\ \A n \in 1..Len(found) :
                       /\ found[n].SEVERITY = "CRITICAL" <=> (c[1] \/ c[2])
                       /\ found[n].SEVERITY \in {"CRITICAL", "HIGH"}
                       /\ found[n].PROBLEM =
                              IF c[1] THEN "Missing ON/USING clause in JOIN"
                              ELSE IF c[2] THEN "Explicit CROSS JOIN detected"
                              ELSE IF c[3] THEN "OR condition in JOIN clause"
                              ELSE "Row explosion"

(* a record of which all four conditions hold got one issue, CRITICAL,    *)
(* that names the missing join condition                                  *)
C25_Witness ==
    \E i \in 1..Len(df.rows) :
        /\ calls["analyze_cartesian_joins"] = 1
        /\ JoinConditions(i) = <<TRUE, TRUE, TRUE, TRUE>>
        /\ Len(IssuesFor(tables.cartesian_issues, df.rows[i].QUERY_ID)) = 1
        /\ tables.cartesian_issues[1].SEVERITY = "CRITICAL"
        /\ tables.cartesian_issues[1].PROBLEM = "Missing ON/USING clause in JOIN"

(* the values the page shows under a label *)
ShownAs(label) == {s[2] : s \in {x \in shown : x[1] = label}}

(* C26: whenever the executive summary shows its statistics, the Critical *)
(* Issues count shown is at most the Total Issues Found shown, and the    *)
(* statistics are shown only when the total is > 0; otherwise the         *)
(* no-major-issues message is shown.                                      *)
C26_CriticalAtMostTotal ==
    /\ \A c \in ShownAs("Critical Issues"), t \in ShownAs("Total Issues Found") :
           0 <= c /\ c <= t
    /\ \A t \in ShownAs("Total Issues Found") :
           /\ t > 0
           /\ t = all_issues_count
           /\ ShownAs("Critical Issues") = {critical}
           /\ ShownAs("No major issues detected") = {}
    /\ ShownAs("Critical Issues") # {} => ShownAs("Total Issues Found") # {}
    /\ all_issues_count # NULL =>
           IF all_issues_count > 0
           THEN ShownAs("Total Issues Found") = {all_issues_count}
           ELSE /\ ShownAs("No major issues detected") # {}
                /\ ShownAs("Total Issues Found") = {}
                /\ ShownAs("Critical Issues") = {}

(* the summary showed its statistics with a critical issue among more     *)
(* issues                                                                 *)
C26_Witness ==
    /\ pc = "done"
    /\ \E c \in ShownAs("Critical Issues"), t \in ShownAs("Total Issues Found") :
           0 < c /\ c < t

=============================================================================
